---------------------------- MODULE Spec2Model ----------------------------
(***************************************************************************)
(* A model of the BCS codec of n8n-nodes-aptos                             *)
(* (src/nodes/Aptos/utils/bcsUtils.ts, with hexToBytes of accountUtils.ts). *)
(*                                                                         *)
(* The codec is a set of pure functions.  A behaviour of the model is one  *)
(* call: from the idle state an action picks a function and an input from *)
(* a bounded set, and records the input in arg and what the call produced  *)
(* in ret.                                                                 *)
(*                                                                         *)
(* Integers.  A JavaScript bigint, and an integer-valued number, is        *)
(* modelled as an arbitrary-precision integer in two's complement:         *)
(*   [neg |-> BOOLEAN, bits |-> <<b0, b1, ...>>]   (least significant      *)
(* first) with value  SUM bits[i+1] * 2^i  -  (IF neg THEN 2^Len ELSE 0),  *)
(* i.e. the infinite expansion whose bits beyond Len(bits) all equal the   *)
(* sign.  This is the representation ECMAScript defines the bitwise        *)
(* operators on.  A value that went through ToInt32 is a plain integer of  *)
(* -2^31 .. 2^31 - 1.                                                      *)
(***************************************************************************)
EXTENDS Integers, Sequences, FiniteSets, TLC

VARIABLES fn, arg, ret, workflowStaticData, options, state, pollingTimer, polls, ledger

\* the fields of the event stream manager, its polls that are under way,
\* and the ledger they read
manager == <<options, state, pollingTimer, polls, ledger>>

\* what outlives a call: the static data of the trigger node and the manager
stored == <<workflowStaticData, options, state, pollingTimer, polls, ledger>>

vars == <<fn, arg, ret, workflowStaticData, options, state, pollingTimer, polls, ledger>>

(***************************************************************************)
(* Bounds of the model.                                                    *)
(***************************************************************************)
\* Inputs 2^k, 2^k - 1, -2^k, -(2^k) + 1 are drawn for k in 0 .. MaxBits.
MaxBits == 258

\* Multi-byte patterns have their top byte at position 0 .. MaxBytePos.
MaxBytePos == 33

\* Every integer 0 .. MaxSmall (and its negation) is drawn.
MaxSmall == 300

\* Address strings have a run of 0 .. MaxAddrRun equal digits.
MaxAddrRun == 65

\* Every string of at most MaxStrLen code units of the alphabet is drawn.
MaxStrLen == 3

\* Long strings and vectors repeat one element 0 .. MaxRun times.
MaxRun == 130

\* Every list of at most MaxItems items is drawn.
MaxItems == 3

\* Every byte sequence of at most MaxShort sampled bytes is decoded.
MaxShort == 3

\* Longer byte sequences to decode have MaxDecPos bytes below their top byte.
MaxDecPos == 9

\* Coin decimals range over 0 .. MaxDecimals.
MaxDecimals == 24

\* Arrays of Move values have at most MaxMoveItems elements.
MaxMoveItems == 2

\* Vector tags nest to depth 0 .. MaxDepth.
MaxDepth == 3

\* type arguments of a generic type
MaxTypeArgs == 3

\* requests of one handler run, any of which may be the one that fails
MaxRequests == 4

\* input items of one execution
MaxExecItems == 2

\* ledger versions a poll may read
MaxVersion == 3

\* account balances a poll may read
MaxBalance == 2

\* block heights of the ledger
MaxHeight == 12

\* timers the runtime can hold
MaxTimers == 2

\* polls of the manager under way at a time
MaxPolls == 2

(***************************************************************************)
(* Generic helpers.                                                        *)
(***************************************************************************)
Max(a, b) == IF a >= b THEN a ELSE b

Min(a, b) == IF a <= b THEN a ELSE b

Rep(x, n) == [i \in 1..n |-> x]

\* for (k = lo; k <= hi; k++) st = Body(st, k): the state after the loop.
\* The range is halved, which keeps the evaluation shallow; the iterations
\* run in order, each on the state the one before left. The test on half
\* has the first part of the range evaluated before the second part starts.
RECURSIVE ForLoop(_, _, _, _)
ForLoop(Body(_, _), st, lo, hi) ==
  IF lo > hi THEN st
  ELSE IF lo = hi THEN Body(st, lo)
  ELSE LET mid  == (lo + hi) \div 2
           half == ForLoop(Body, st, lo, mid)
       IN  IF half = half THEN ForLoop(Body, half, mid + 1, hi) ELSE st

\* SUM of f[i] * 2^(i - lo) for i in lo..hi
RECURSIVE BitSum(_, _, _)
BitSum(f, lo, hi) ==
  IF hi < lo THEN 0 ELSE f[lo] + 2 * BitSum(f, lo + 1, hi)

(***************************************************************************)
(* Arbitrary-precision integers (bigint, and the integer numbers).         *)
(***************************************************************************)
SignBit(x) == IF x.neg THEN 1 ELSE 0

\* bit i (0-based) of the infinite two's complement expansion
BitAt(x, i) == IF i < Len(x.bits) THEN x.bits[i + 1] ELSE SignBit(x)

\* the canonical form: no leading bits equal to the sign
RECURSIVE TrimLen(_, _, _)
TrimLen(bits, s, n) ==
  IF n = 0 \/ bits[n] # s THEN n ELSE TrimLen(bits, s, n - 1)

Norm(neg, bits) ==
  [neg |-> neg, bits |-> SubSeq(bits, 1, TrimLen(bits, IF neg THEN 1 ELSE 0, Len(bits)))]

BigZero == [neg |-> FALSE, bits |-> <<>>]

\* number of bits of a natural number below 2^31
RECURSIVE NatBitLen(_)
NatBitLen(k) == IF k = 0 THEN 0 ELSE 1 + NatBitLen(k \div 2)

\* BigInt(k) for a natural number k below 2^31
BigFromNat(k) ==
  [neg |-> FALSE, bits |-> [i \in 1..NatBitLen(k) |-> (k \div 2^(i - 1)) % 2]]

\* Number(x) for a bigint 0 <= x < 2^31
BigToNat(x) == BitSum(x.bits, 1, Len(x.bits))

\* x >> k : drops the k low bits of the expansion (floor division by 2^k)
BigShr(x, k) == Norm(x.neg, SubSeq(x.bits, k + 1, Len(x.bits)))

\* x << k
BigShl(x, k) == Norm(x.neg, Rep(0, k) \o x.bits)

\* x & y, bit by bit on the infinite expansions (beyond the bits of a
\* non-negative operand every bit of the result is 0)
BigAnd(x, y) ==
  LET n == IF x.neg /\ y.neg THEN Max(Len(x.bits), Len(y.bits))
           ELSE IF x.neg THEN Len(y.bits)
           ELSE IF y.neg THEN Len(x.bits)
           ELSE Min(Len(x.bits), Len(y.bits))
  IN  Norm(x.neg /\ y.neg, [i \in 1..n |-> BitAt(x, i - 1) * BitAt(y, i - 1)])

\* x | y
BigOr(x, y) ==
  LET n == Max(Len(x.bits), Len(y.bits))
  IN  Norm(x.neg \/ y.neg, [i \in 1..n |-> Max(BitAt(x, i - 1), BitAt(y, i - 1))])

(***************************************************************************)
(* 32-bit integer operators of ECMAScript (&, |, >>, << on numbers).       *)
(***************************************************************************)
Int32Min == -2147483647 - 1

\* ToInt32 of an integer: its low 32 bits read as a signed 32-bit value
ToInt32(x) ==
  LET low == [i \in 0..31 |-> BitAt(x, i)]
  IN  BitSum(low, 0, 30) + (IF low[31] = 1 THEN Int32Min ELSE 0)

\* the 32 bits of a signed 32-bit value
Bits32(v) ==
  [i \in 0..31 |-> IF i = 31 THEN (IF v < 0 THEN 1 ELSE 0) ELSE (v \div 2^i) % 2]

FromBits32(b) == BitSum(b, 0, 30) + (IF b[31] = 1 THEN Int32Min ELSE 0)

\* a & b
And32(a, b) ==
  LET x == Bits32(a)
      y == Bits32(b)
  IN  FromBits32([i \in 0..31 |-> x[i] * y[i]])

\* a | b
Or32(a, b) ==
  LET x == Bits32(a)
      y == Bits32(b)
  IN  FromBits32([i \in 0..31 |-> Max(x[i], y[i])])

\* a >> k : sign-propagating right shift, the count taken modulo 32
Sar32(a, k) == a \div 2^(k % 32)

\* a << k : the count taken modulo 32, bits shifted past bit 31 are lost
Shl32(a, k) ==
  LET s == k % 32
      b == Bits32(a)
  IN  FromBits32([i \in 0..31 |-> IF i < s THEN 0 ELSE b[i - s]])

(***************************************************************************)
(* Uint8Array.                                                             *)
(***************************************************************************)
\* new Uint8Array(n)
U8New(n) == Rep(0, n)

\* bytes[idx] = v : the value is stored modulo 256, a store past the end is
\* ignored
U8Store(bytes, idx, v) ==
  IF idx >= 0 /\ idx < Len(bytes) THEN [bytes EXCEPT ![idx + 1] = v % 256] ELSE bytes

\* result.set(src, offset), for a src that fits
U8Set(result, src, offset) ==
  SubSeq(result, 1, offset) \o src \o SubSeq(result, offset + Len(src) + 1, Len(result))

Returned(bytes) == [outcome |-> "returned", bytes |-> bytes]

(***************************************************************************)
(* The fixed-width encoders.                                               *)
(***************************************************************************)
encodeU8(value) == Returned(<<And32(ToInt32(value), 255) % 256>>)

encodeU16(value) ==
  LET v  == ToInt32(value)
      b0 == U8Store(U8New(2), 0, And32(v, 255))
      b1 == U8Store(b0, 1, And32(Sar32(v, 8), 255))
  IN  Returned(b1)

\* encodeU32 with the shift of byte 3 copied from byte 2
encodeU32_CopiedShift(value) ==
  LET v  == ToInt32(value)
      b0 == U8Store(U8New(4), 0, And32(v, 255))
      b1 == U8Store(b0, 1, And32(Sar32(v, 8), 255))
      b2 == U8Store(b1, 2, And32(Sar32(v, 16), 255))
      b3 == U8Store(b2, 3, And32(Sar32(v, 16), 255))
  IN  Returned(b3)

encodeU32(value) ==
  LET v  == ToInt32(value)
      b0 == U8Store(U8New(4), 0, And32(v, 255))
      b1 == U8Store(b0, 1, And32(Sar32(v, 8), 255))
      b2 == U8Store(b1, 2, And32(Sar32(v, 16), 255))
      b3 == U8Store(b2, 3, And32(Sar32(v, 24), 255))
  IN  Returned(b3)

\* the loop shared by encodeU64, encodeU128 and encodeU256:
\*   for (i = 0; i < n; i++) bytes[i] = Number((bigValue >> BigInt(i * 8)) & BigInt(0xff))
EncodeLoop(bigValue, n) ==
  LET Body(bytes, i) ==
        U8Store(bytes, i, BigToNat(BigAnd(BigShr(bigValue, i * 8), BigFromNat(255))))
  IN  ForLoop(Body, U8New(n), 0, n - 1)

encodeU64(value) == Returned(EncodeLoop(value, 8))

encodeU128(value) == Returned(EncodeLoop(value, 16))

encodeU256(value) == Returned(EncodeLoop(value, 32))

\* for (i = 0; i < limit && i < bytes.length; i++) result |= BigInt(bytes[i]) << BigInt(i * 8)
DecodeLoop(bytes, limit) ==
  LET Body(result, i) == BigOr(result, BigShl(BigFromNat(bytes[i + 1]), i * 8))
  IN  ForLoop(Body, BigZero, 0, Min(limit, Len(bytes)) - 1)

\* decodeU64 with the loop stopping one byte early
decodeU64_SevenBytes(bytes) == DecodeLoop(bytes, 7)

decodeU64(bytes) == DecodeLoop(bytes, 8)

(***************************************************************************)
(* ULEB128.                                                                *)
(***************************************************************************)
\* the do-while loop of encodeUleb128, entered with the 32-bit value v that
\* `value & 0x7f` and `value >>= 7` see.  The exit test reads only value,
\* so an iteration that leaves value as it was and not 0 repeats for ever
\* (bytes grows until the engine gives up): the call never returns.
RECURSIVE UlebLoop(_, _)
UlebLoop(v, bytes) ==
  LET low  == And32(v, 127)
      v2   == Sar32(v, 7)
      byte == IF v2 # 0 THEN Or32(low, 128) ELSE low
  IN  IF v2 = 0 THEN Returned(Append(bytes, byte))
      ELSE IF v2 = v THEN [outcome |-> "diverges"]
      ELSE UlebLoop(v2, Append(bytes, byte))

encodeUleb128(value) == UlebLoop(ToInt32(value), <<>>)

\* the while loop of decodeUleb128
RECURSIVE UlebDecodeLoop(_, _, _, _, _)
UlebDecodeLoop(bytes, offset, result, shift, bytesRead) ==
  IF offset + bytesRead < Len(bytes)
    THEN LET byte == bytes[offset + bytesRead + 1]
             r2   == Or32(result, Shl32(And32(byte, 127), shift))
         IN  IF And32(byte, 128) = 0
               THEN [outcome |-> "returned", value |-> r2, bytesRead |-> bytesRead + 1]
               ELSE UlebDecodeLoop(bytes, offset, r2, shift + 7, bytesRead + 1)
    ELSE [outcome |-> "returned", value |-> result, bytesRead |-> bytesRead]

decodeUleb128(bytes, offset) == UlebDecodeLoop(bytes, offset, 0, 0, 0)

(***************************************************************************)
(* Strings of address characters: sequences of one-character strings.      *)
(***************************************************************************)
LowerHex == <<"0", "1", "2", "3", "4", "5", "6", "7", "8", "9", "a", "b", "c", "d", "e", "f">>

UpperHex == <<"0", "1", "2", "3", "4", "5", "6", "7", "8", "9", "A", "B", "C", "D", "E", "F">>

\* whether c is a digit of radix 16, in either case
IsHexDigit(c) == \E i \in 1..16 : c = LowerHex[i] \/ c = UpperHex[i]

\* the value of a digit of radix 16
DigitValue(c) == (CHOOSE i \in 1..16 : c = LowerHex[i] \/ c = UpperHex[i]) - 1

\* s.startsWith('0x')
StartsWith0x(s) == Len(s) >= 2 /\ s[1] = "0" /\ s[2] = "x"

\* s.slice(from, to)
Slice(s, from, to) == SubSeq(s, from + 1, Min(to, Len(s)))

\* s.padStart(n, c)
PadStart(s, n, c) == IF Len(s) >= n THEN s ELSE Rep(c, n - Len(s)) \o s

\* s.padEnd(n, c)
PadEnd(s, n, c) == IF Len(s) >= n THEN s ELSE s \o Rep(c, n - Len(s))

RECURSIVE SkipSpaces(_)
SkipSpaces(s) == IF Len(s) > 0 /\ s[1] = " " THEN SkipSpaces(Tail(s)) ELSE s

\* the value of the longest prefix of s made of digits of radix 16, with the
\* number of digits read
RECURSIVE HexPrefix(_, _, _)
HexPrefix(s, acc, count) ==
  IF Len(s) > 0 /\ IsHexDigit(s[1])
    THEN HexPrefix(Tail(s), 16 * acc + DigitValue(s[1]), count + 1)
    ELSE [val |-> acc, count |-> count]

\* parseInt(s, 16): leading white space is skipped, then a sign, then a 0x
\* or 0X prefix; the digits up to the first other character are read, and
\* the result is NaN when there is none
ParseInt16(s) ==
  LET t      == SkipSpaces(s)
      signed == Len(t) > 0 /\ t[1] \in {"+", "-"}
      sign   == IF Len(t) > 0 /\ t[1] = "-" THEN -1 ELSE 1
      u      == IF signed THEN Tail(t) ELSE t
      w      == IF Len(u) >= 2 /\ u[1] = "0" /\ u[2] \in {"x", "X"} THEN Tail(Tail(u)) ELSE u
      d      == HexPrefix(w, 0, 0)
  IN  IF d.count = 0 THEN [nan |-> TRUE, val |-> 0] ELSE [nan |-> FALSE, val |-> sign * d.val]

\* bytes[idx] = x for a parseInt result: NaN is stored as 0
U8StoreNumber(bytes, idx, x) == U8Store(bytes, idx, IF x.nan THEN 0 ELSE x.val)

\* the loop of hexToBytes, for (i = 0; i < cleanHex.length; i += 2), counted
\* by h = i / 2
HexLoop(cleanHex, bytes0) ==
  LET Body(bytes, h) ==
        U8StoreNumber(bytes, h, ParseInt16(Slice(cleanHex, 2 * h, 2 * h + 2)))
  IN  ForLoop(Body, bytes0, 0, (Len(cleanHex) + 1) \div 2 - 1)

\* new Uint8Array(cleanHex.length / 2) takes the integer part of the length
hexToBytes(hex) ==
  LET cleanHex == IF StartsWith0x(hex) THEN Slice(hex, 2, Len(hex)) ELSE hex
  IN  Returned(HexLoop(cleanHex, U8New(Len(cleanHex) \div 2)))

\* encodeAddress padding at the end instead of the start
encodeAddress_PadEnd(address) ==
  LET cleanAddress == IF StartsWith0x(address) THEN Slice(address, 2, Len(address)) ELSE address
  IN  hexToBytes(PadEnd(cleanAddress, 64, "0"))

encodeAddress(address) ==
  LET cleanAddress  == IF StartsWith0x(address) THEN Slice(address, 2, Len(address)) ELSE address
      paddedAddress == PadStart(cleanAddress, 64, "0")
  IN  hexToBytes(paddedAddress)

(***************************************************************************)
(* JavaScript strings: sequences of UTF-16 code units.  TextEncoder and    *)
(* TextDecoder (utf-8, the defaults: not fatal, ignoreBOM false).          *)
(***************************************************************************)
IsHighSurrogate(u) == u >= 55296 /\ u <= 56319

IsLowSurrogate(u) == u >= 56320 /\ u <= 57343

ReplacementChar == 65533

ByteOrderMark == 65279

\* the scalar values of a string: a surrogate pair is one code point, a
\* surrogate on its own becomes U+FFFD
CodePoints(units) ==
  LET Body(out, i) ==
        IF IsHighSurrogate(units[i]) /\ i < Len(units) /\ IsLowSurrogate(units[i + 1])
          THEN Append(out, 65536 + (units[i] - 55296) * 1024 + (units[i + 1] - 56320))
        ELSE IF IsLowSurrogate(units[i]) /\ i > 1 /\ IsHighSurrogate(units[i - 1])
          THEN out
        ELSE IF IsHighSurrogate(units[i]) \/ IsLowSurrogate(units[i])
          THEN Append(out, ReplacementChar)
        ELSE Append(out, units[i])
  IN  ForLoop(Body, <<>>, 1, Len(units))

\* the UTF-8 bytes of one scalar value
Utf8Bytes(cp) ==
  IF cp < 128 THEN <<cp>>
  ELSE IF cp < 2048 THEN <<192 + (cp \div 64), 128 + (cp % 64)>>
  ELSE IF cp < 65536
    THEN <<224 + (cp \div 4096), 128 + ((cp \div 64) % 64), 128 + (cp % 64)>>
  ELSE <<240 + (cp \div 262144), 128 + ((cp \div 4096) % 64), 128 + ((cp \div 64) % 64),
         128 + (cp % 64)>>

\* the concatenation of a sequence of sequences
Flatten(seqs) ==
  LET Body(out, k) == out \o seqs[k]
  IN  ForLoop(Body, <<>>, 1, Len(seqs))

\* new TextEncoder().encode(value)
TextEncode(value) ==
  LET cps == CodePoints(value)
  IN  Flatten([i \in 1..Len(cps) |-> Utf8Bytes(cps[i])])

Utf8Start == [cp |-> 0, needed |-> 0, seen |-> 0, lower |-> 128, upper |-> 191, out |-> <<>>]

Utf8Reset(st) ==
  [st EXCEPT !.cp = 0, !.needed = 0, !.seen = 0, !.lower = 128, !.upper = 191]

\* the UTF-8 decoder of the Encoding standard on a byte b that starts a
\* sequence
Utf8Lead(st, b) ==
  IF b <= 127 THEN [st EXCEPT !.out = Append(st.out, b)]
  ELSE IF b >= 194 /\ b <= 223 THEN [st EXCEPT !.needed = 1, !.cp = b - 192]
  ELSE IF b >= 224 /\ b <= 239
    THEN [st EXCEPT !.needed = 2, !.cp = b - 224,
                    !.lower = IF b = 224 THEN 160 ELSE 128,
                    !.upper = IF b = 237 THEN 159 ELSE 191]
  ELSE IF b >= 240 /\ b <= 244
    THEN [st EXCEPT !.needed = 3, !.cp = b - 240,
                    !.lower = IF b = 240 THEN 144 ELSE 128,
                    !.upper = IF b = 244 THEN 143 ELSE 191]
  ELSE [st EXCEPT !.out = Append(st.out, ReplacementChar)]

\* the decoder on any byte: a byte that cannot continue the sequence ends it
\* with U+FFFD and is read again as the start of a sequence
Utf8Handle(st, b) ==
  IF st.needed = 0 THEN Utf8Lead(st, b)
  ELSE IF b < st.lower \/ b > st.upper
    THEN Utf8Lead([Utf8Reset(st) EXCEPT !.out = Append(st.out, ReplacementChar)], b)
  ELSE IF st.seen + 1 = st.needed
    THEN [Utf8Reset(st) EXCEPT !.out = Append(st.out, st.cp * 64 + (b - 128))]
  ELSE [st EXCEPT !.cp = st.cp * 64 + (b - 128), !.seen = st.seen + 1,
                  !.lower = 128, !.upper = 191]

\* the scalar values decoded from bytes; an unfinished sequence at the end
\* gives U+FFFD
Utf8Decode(bytes) ==
  LET Body(st, i) == Utf8Handle(st, bytes[i])
      end == ForLoop(Body, Utf8Start, 1, Len(bytes))
  IN  IF end.needed # 0 THEN Append(end.out, ReplacementChar) ELSE end.out

\* the UTF-16 code units of one scalar value
Utf16Units(cp) ==
  IF cp < 65536 THEN <<cp>>
  ELSE <<55296 + ((cp - 65536) \div 1024), 56320 + ((cp - 65536) % 1024)>>

\* new TextDecoder().decode(bytes): ignoreBOM is false, so a byte order mark
\* that starts the input is not part of the result
TextDecode(bytes) ==
  LET cps  == Utf8Decode(bytes)
      kept == IF Len(cps) > 0 /\ cps[1] = ByteOrderMark THEN Tail(cps) ELSE cps
  IN  Flatten([i \in 1..Len(kept) |-> Utf16Units(kept[i])])

\* bytes.slice(start, end): a negative index counts from the end, both are
\* clamped to the array
U8Slice(bytes, start, end) ==
  LET from == IF start < 0 THEN Max(Len(bytes) + start, 0) ELSE Min(start, Len(bytes))
      to   == IF end < 0 THEN Max(Len(bytes) + end, 0) ELSE Min(end, Len(bytes))
  IN  SubSeq(bytes, from + 1, to)

(***************************************************************************)
(* Strings and vectors.                                                    *)
(***************************************************************************)
\* encodeString with the number of UTF-16 code units as the length prefix
encodeString_UnitCount(value) ==
  LET stringBytes  == TextEncode(value)
      lengthPrefix == encodeUleb128(BigFromNat(Len(value))).bytes
      result       == U8New(Len(lengthPrefix) + Len(stringBytes))
  IN  Returned(U8Set(U8Set(result, lengthPrefix, 0), stringBytes, Len(lengthPrefix)))

encodeString(value) ==
  LET stringBytes  == TextEncode(value)
      lengthPrefix == encodeUleb128(BigFromNat(Len(stringBytes))).bytes
      result       == U8New(Len(lengthPrefix) + Len(stringBytes))
  IN  Returned(U8Set(U8Set(result, lengthPrefix, 0), stringBytes, Len(lengthPrefix)))

decodeString(bytes, offset) ==
  LET d           == decodeUleb128(bytes, offset)
      length      == d.value
      lengthBytes == d.bytesRead
      stringBytes == U8Slice(bytes, offset + lengthBytes, offset + lengthBytes + length)
  IN  [outcome |-> "returned", value |-> TextDecode(stringBytes), bytesRead |-> lengthBytes + length]

\* items.reduce((sum, item) => sum + item.length, 0)
TotalLength(items) ==
  LET Body(sum, k) == sum + Len(items[k])
  IN  ForLoop(Body, 0, 1, Len(items))

\* for (const item of items) { result.set(item, offset); offset += item.length }
VectorLoop(items, result0, offset0) ==
  LET Body(st, k) ==
        [result |-> U8Set(st.result, items[k], st.offset), offset |-> st.offset + Len(items[k])]
  IN  ForLoop(Body, [result |-> result0, offset |-> offset0], 1, Len(items)).result

\* encodeVector with the number of bytes as the length prefix
encodeVector_ByteCount(items) ==
  LET lengthPrefix == encodeUleb128(BigFromNat(TotalLength(items))).bytes
      totalLength  == TotalLength(items)
      result       == U8Set(U8New(Len(lengthPrefix) + totalLength), lengthPrefix, 0)
  IN  Returned(VectorLoop(items, result, Len(lengthPrefix)))

encodeVector(items) ==
  LET lengthPrefix == encodeUleb128(BigFromNat(Len(items))).bytes
      totalLength  == TotalLength(items)
      result       == U8Set(U8New(Len(lengthPrefix) + totalLength), lengthPrefix, 0)
  IN  Returned(VectorLoop(items, result, Len(lengthPrefix)))

(***************************************************************************)
(* encodeMoveArg.  A type tag is a sequence of one-character strings.  A   *)
(* value is [t |-> kind, v |-> payload] with kind "boolean", "number",     *)
(* "bigint", "string" or "array"; a number and a bigint hold an integer as *)
(* above, a string holds its characters (code units where it is text), an  *)
(* array holds a sequence of values.                                       *)
(***************************************************************************)
LowerLetters ==
  <<"a", "b", "c", "d", "e", "f", "g", "h", "i", "j", "k", "l", "m",
    "n", "o", "p", "q", "r", "s", "t", "u", "v", "w", "x", "y", "z">>

UpperLetters ==
  <<"A", "B", "C", "D", "E", "F", "G", "H", "I", "J", "K", "L", "M",
    "N", "O", "P", "Q", "R", "S", "T", "U", "V", "W", "X", "Y", "Z">>

ToLowerChar(c) ==
  IF \E i \in 1..26 : c = UpperLetters[i]
    THEN LowerLetters[CHOOSE i \in 1..26 : c = UpperLetters[i]]
    ELSE c

\* s.toLowerCase()
ToLowerCase(s) == [i \in 1..Len(s) |-> ToLowerChar(s[i])]

\* s.startsWith(p)
StartsWith(s, p) == Len(s) >= Len(p) /\ SubSeq(s, 1, Len(p)) = p

\* s.slice(start, end) of a string: a negative index counts from the end,
\* both are clamped to the string
StrSlice(s, start, end) ==
  LET from == IF start < 0 THEN Max(Len(s) + start, 0) ELSE Min(start, Len(s))
      to   == IF end < 0 THEN Max(Len(s) + end, 0) ELSE Min(end, Len(s))
  IN  SubSeq(s, from + 1, to)

TagBool == <<"b", "o", "o", "l">>

TagU8 == <<"u", "8">>

TagU16 == <<"u", "1", "6">>

TagU32 == <<"u", "3", "2">>

TagU64 == <<"u", "6", "4">>

TagU128 == <<"u", "1", "2", "8">>

TagU256 == <<"u", "2", "5", "6">>

TagAddress == <<"a", "d", "d", "r", "e", "s", "s">>

TagString == <<"s", "t", "r", "i", "n", "g">>

\* the case label '0x1::string::String'
TagStdString ==
  <<"0", "x", "1", ":", ":", "s", "t", "r", "i", "n", "g", ":", ":", "S", "t", "r", "i", "n", "g">>

\* 'vector<'
VectorPrefix == <<"v", "e", "c", "t", "o", "r", "<">>

Throws(error, message) == [outcome |-> "throws", error |-> error, message |-> message]

\* new Uint8Array([value ? 1 : 0])
encodeBool(value) == Returned(<<IF value THEN 1 ELSE 0>>)

\* type.slice(7) : the inner type with the closing bracket left on
VectorInnerType_KeepBracket(type) == StrSlice(type, 7, Len(type))

\* type.slice(7, -1)
VectorInnerType(type) == StrSlice(type, 7, -1)

\* The switch is on type.toLowerCase(), the test of the default branch on
\* type itself.  value.map exists on an array only: on any other value the
\* call is a TypeError.  An element that throws ends the map with its error.
RECURSIVE encodeMoveArg(_, _)
encodeMoveArg(type, value) ==
  LET lower == ToLowerCase(type)
  IN  IF lower = TagBool THEN encodeBool(value.v)
      ELSE IF lower = TagU8 THEN encodeU8(value.v)
      ELSE IF lower = TagU16 THEN encodeU16(value.v)
      ELSE IF lower = TagU32 THEN encodeU32(value.v)
      ELSE IF lower = TagU64 THEN encodeU64(value.v)
      ELSE IF lower = TagU128 THEN encodeU128(value.v)
      ELSE IF lower = TagU256 THEN encodeU256(value.v)
      ELSE IF lower = TagAddress THEN encodeAddress(value.v)
      ELSE IF lower = TagString \/ lower = TagStdString THEN encodeString(value.v)
      ELSE IF StartsWith(type, VectorPrefix)
        THEN LET innerType == VectorInnerType(type)
             IN  IF value.t # "array" THEN Throws("TypeError", "value.map is not a function")
                 ELSE LET items  == [i \in 1..Len(value.v) |-> encodeMoveArg(innerType, value.v[i])]
                          failed == {i \in 1..Len(items) : items[i].outcome # "returned"}
                      IN  IF failed # {}
                            THEN items[CHOOSE i \in failed : \A j \in failed : i <= j]
                            ELSE encodeVector([i \in 1..Len(items) |-> items[i].bytes])
      ELSE Throws("Error", "Unsupported BCS type")

(***************************************************************************)
(* Arithmetic on bigints.  The operations with a small operand keep their  *)
(* carry or remainder in a plain integer below 2^31.                       *)
(***************************************************************************)
\* x * c + a for a bigint x >= 0 and integers c >= 1, 0 <= a <= c < 2^30
BigMulAddSmall(x, c, a) ==
  LET Body(st, i) ==
        LET t == BitAt(x, i) * c + st.carry
        IN  [out |-> Append(st.out, t % 2), carry |-> t \div 2]
  IN  Norm(FALSE, ForLoop(Body, [out |-> <<>>, carry |-> a], 0, Len(x.bits) + 30).out)

\* floor(x / d) and x mod d for a bigint x >= 0 and an integer 0 < d < 2^30
BigDivModSmall(x, d) ==
  LET n == Len(x.bits)
      Body(st, k) ==
        LET t == 2 * st.r + x.bits[n - k + 1]
        IN  [q |-> <<IF t >= d THEN 1 ELSE 0>> \o st.q, r |-> IF t >= d THEN t - d ELSE t]
      end == ForLoop(Body, [q |-> <<>>, r |-> 0], 1, n)
  IN  [q |-> Norm(FALSE, end.q), r |-> end.r]

\* -x
BigNeg(x) ==
  LET n        == Len(x.bits) + 2
      inverted == Norm(FALSE, [i \in 1..n |-> 1 - BitAt(x, i - 1)])
      sum      == BigMulAddSmall(inverted, 1, 1)
      low      == [i \in 1..n |-> BitAt(sum, i - 1)]
  IN  Norm(low[n] = 1, low)

\* x + y, bit by bit with a carry, on the low n bits of the two expansions
BigAdd(x, y) ==
  LET n == Max(Len(x.bits), Len(y.bits)) + 2
      Body(st, i) ==
        LET t == BitAt(x, i) + BitAt(y, i) + st.carry
        IN  [out |-> Append(st.out, t % 2), carry |-> t \div 2]
      low == ForLoop(Body, [out |-> <<>>, carry |-> 0], 0, n - 1).out
  IN  Norm(low[n] = 1, low)

\* x - y
BigSub(x, y) == BigAdd(x, BigNeg(y))

\* x < y
BigLess(x, y) == BigSub(x, y).neg

\* x * y for x, y >= 0: y is cut into pieces of 30 bits, and the products of
\* x and the pieces are added up, each shifted to its place
BigMulNat(x, y) ==
  LET Piece(j) == BitSum([i \in 0..29 |-> BitAt(y, 30 * j + i)], 0, 29)
      Body(sum, j) == BigAdd(sum, BigShl(BigMulAddSmall(x, Piece(j), 0), 30 * j))
  IN  ForLoop(Body, BigZero, 0, (Len(y.bits) + 29) \div 30 - 1)

\* x * y
BigMul(x, y) ==
  LET ax == IF x.neg THEN BigNeg(x) ELSE x
      ay == IF y.neg THEN BigNeg(y) ELSE y
      p  == BigMulNat(ax, ay)
  IN  IF x.neg # y.neg THEN BigNeg(p) ELSE p

\* floor(x / y) for x >= 0 and y > 0, by long division
BigDivNat(x, y) ==
  LET n    == Len(x.bits)
      negY == BigNeg(y)
      Body(st, k) ==
        LET t    == Norm(FALSE, <<x.bits[n - k + 1]>> \o st.r.bits)
            left == IF Len(t.bits) < Len(y.bits) THEN negY ELSE BigAdd(t, negY)
        IN  IF left.neg THEN [q |-> <<0>> \o st.q, r |-> t]
            ELSE [q |-> <<1>> \o st.q, r |-> left]
  IN  Norm(FALSE, ForLoop(Body, [q |-> <<>>, r |-> BigZero], 1, n).q)

\* x / y on bigints: the quotient rounded towards zero; y = 0 is a RangeError
BigDiv(x, y) ==
  LET ax == IF x.neg THEN BigNeg(x) ELSE x
      ay == IF y.neg THEN BigNeg(y) ELSE y
      q  == BigDivNat(ax, ay)
  IN  IF x.neg # y.neg THEN BigNeg(q) ELSE q

\* 10^k as a bigint, for k >= 0
Pow10(k) ==
  LET Body(acc, i) == BigMulAddSmall(acc, 10, 0)
  IN  ForLoop(Body, BigFromNat(1), 1, k)

(***************************************************************************)
(* Numbers (IEEE 754 double precision) in the range the amounts cover: no  *)
(* overflow to Infinity and no subnormal result.  A number is NaN or       *)
(* (-1)^neg * m * 2^e with m a bigint below 2^53, m odd or zero.           *)
(***************************************************************************)
NaN == [nan |-> TRUE, neg |-> FALSE, m |-> BigZero, e |-> 0]

\* the number of zero bits below the lowest 1 bit
RECURSIVE TrailingZeros(_, _)
TrailingZeros(bits, i) ==
  IF i > Len(bits) \/ bits[i] = 1 THEN i - 1 ELSE TrailingZeros(bits, i + 1)

\* the number m * 2^e, for m below 2^53
Dbl(neg, m, e) ==
  IF m = BigZero THEN [nan |-> FALSE, neg |-> neg, m |-> BigZero, e |-> 0]
  ELSE LET tz == TrailingZeros(m.bits, 1)
       IN  [nan |-> FALSE, neg |-> neg, m |-> BigShr(m, tz), e |-> e + tz]

\* the number nearest to (m + f) * 2^e with 0 <= f < 1 and sticky = (f > 0),
\* ties to even; m has at least 55 bits when sticky
RoundToDouble(neg, m, e, sticky) ==
  LET n == Len(m.bits)
  IN  IF n <= 53 THEN Dbl(neg, m, e)
      ELSE LET k    == n - 53
               top  == BigShr(m, k)
               half == m.bits[k] = 1
               rest == sticky \/ \E i \in 1..(k - 1) : m.bits[i] = 1
               up   == half /\ (rest \/ top.bits[1] = 1)
           IN  Dbl(neg, IF up THEN BigMulAddSmall(top, 1, 1) ELSE top, e + k)

\* x * c for a number x and an integer 1 <= c < 2^30 (itself a number)
DblTimes(x, c) ==
  IF x.nan THEN NaN ELSE RoundToDouble(x.neg, BigMulAddSmall(x.m, c, 0), x.e, FALSE)

\* Math.round(x): the integer nearest to x, a tie going towards +Infinity
MathRound(x) ==
  IF x.nan \/ x.e >= 0 THEN x
  ELSE LET k     == 0 - x.e
           whole == BigShr(x.m, k)
           half  == BitAt(x.m, k - 1) = 1
           below == \E i \in 1..(k - 1) : BitAt(x.m, i - 1) = 1
           up    == IF x.neg THEN half /\ below ELSE half
       IN  Dbl(x.neg, IF up THEN BigMulAddSmall(whole, 1, 1) ELSE whole, 0)

\* x >= 0 on numbers (false for NaN, true for -0)
DblNonNegative(x) == ~x.nan /\ (~x.neg \/ x.m = BigZero)

\* BigInt(x) for a number x: a RangeError unless x is an integer
BigIntOfNumber(x) ==
  IF x.nan \/ x.e < 0 THEN Throws("RangeError", "cannot be converted to a BigInt")
  ELSE LET mag == BigShl(x.m, x.e)
       IN  [outcome |-> "returned", big |-> IF x.neg THEN BigNeg(mag) ELSE mag]

(***************************************************************************)
(* unitConverter.ts.  An amount is a value as above; the payload of a      *)
(* "number" is a number in the sense just defined, that of a "string" its  *)
(* characters, that of a "bigint" a bigint.                                *)
(***************************************************************************)
IsDecDigit(c) == c \in {"0", "1", "2", "3", "4", "5", "6", "7", "8", "9"}

\* the number of decimal digits of s from position i on
RECURSIVE DigitRun(_, _)
DigitRun(s, i) == IF i <= Len(s) /\ IsDecDigit(s[i]) THEN 1 + DigitRun(s, i + 1) ELSE 0

\* the integer a sequence of decimal digits denotes
RECURSIVE SmallDecimalValue(_, _, _)
SmallDecimalValue(digits, lo, hi) ==
  IF hi < lo THEN 0
  ELSE 10 * SmallDecimalValue(digits, lo, hi - 1) + DigitValue(digits[hi])

\* nine digits at a time, so that every step stays below 2^31
DecimalValue(digits) ==
  LET n == Len(digits)
      Body(acc, j) ==
        LET lo == 9 * (j - 1) + 1
            hi == Min(9 * j, n)
        IN  BigMulAddSmall(acc, 10 ^ (hi - lo + 1), SmallDecimalValue(digits, lo, hi))
  IN  ForLoop(Body, BigZero, 1, (n + 8) \div 9)

\* the number nearest to D / 10^f, D being the value of digits: D * 2^s is
\* divided by ten f times, and what the divisions drop decides the rounding
DecimalToDouble(neg, digits, f) ==
  LET D        == DecimalValue(digits)
      s        == 4 * f + 56
      Body(st, i) ==
        LET d == BigDivModSmall(st.q, 10)
        IN  [q |-> d.q, sticky |-> st.sticky \/ d.r # 0]
      end == ForLoop(Body, [q |-> BigShl(D, s), sticky |-> FALSE], 1, f)
  IN  IF f = 0 THEN RoundToDouble(neg, D, 0, FALSE)
      ELSE RoundToDouble(neg, end.q, 0 - s, end.sticky)

\* parseFloat(s): leading blanks are skipped; a sign, digits, and a point
\* with digits are read as far as they go, the rest of the string is
\* ignored; NaN when no digit is read.  (Exponents and "Infinity" are not
\* read: the strings of the model hold neither.)
ParseFloat(s) ==
  LET t      == SkipSpaces(s)
      signed == Len(t) > 0 /\ t[1] \in {"+", "-"}
      neg    == Len(t) > 0 /\ t[1] = "-"
      u      == IF signed THEN Tail(t) ELSE t
      ni     == DigitRun(u, 1)
      point  == ni < Len(u) /\ u[ni + 1] = "."
      nf     == IF point THEN DigitRun(u, ni + 2) ELSE 0
  IN  IF ni = 0 /\ nf = 0 THEN NaN
      ELSE DecimalToDouble(neg, SubSeq(u, 1, ni) \o SubSeq(u, ni + 2, ni + 1 + nf), nf)

\* the literal 100000000 of aptToOctas
OctasPerApt == 100000000

aptToOctas(apt) ==
  LET aptNum == IF apt.t = "string" THEN ParseFloat(apt.v) ELSE apt.v
      scaled == MathRound(DblTimes(aptNum, OctasPerApt))
  IN  BigIntOfNumber(scaled)

\* s.trim(), for the blank
TrimBlanks(s) ==
  LET t == SkipSpaces(s)
      last == {i \in 1..Len(t) : t[i] # " "}
  IN  SubSeq(t, 1, IF last = {} THEN 0 ELSE CHOOSE i \in last : \A j \in last : j <= i)

\* BigInt(s) for a string: blanks around it are dropped; the empty string is
\* 0n; decimal digits may follow a sign; anything else is a SyntaxError.
\* (The prefixes 0x, 0o and 0b are not read: the strings of the model hold
\* none.)
StringToBigInt(s) ==
  LET t      == TrimBlanks(s)
      signed == Len(t) > 0 /\ t[1] \in {"+", "-"}
      u      == IF signed THEN Tail(t) ELSE t
      mag    == DecimalValue(u)
  IN  IF t = <<>> THEN [outcome |-> "returned", big |-> BigZero]
      ELSE IF Len(u) = 0 \/ DigitRun(u, 1) < Len(u)
        THEN Throws("SyntaxError", "Cannot convert to a BigInt")
      ELSE [outcome |-> "returned", big |-> IF t[1] = "-" THEN BigNeg(mag) ELSE mag]

\* typeof amount === 'bigint' ? amount : BigInt(amount)
ToBigInt(amount) ==
  IF amount.t = "bigint" THEN [outcome |-> "returned", big |-> amount.v]
  ELSE IF amount.t = "number" THEN BigIntOfNumber(amount.v)
  ELSE StringToBigInt(amount.v)

\* the numbers 10 ** d can evaluate to, d >= 0: 10^d where that is a number;
\* where it is not, the result of ** is approximated, and is the number
\* below 10^d or the one above
PowTenNumbers(d) ==
  LET p  == Pow10(d)
      n  == Len(p.bits)
      tz == TrailingZeros(p.bits, 1)
      k  == n - 53
  IN  IF n - tz <= 53 THEN {Dbl(FALSE, p, 0)}
      ELSE {Dbl(FALSE, BigShr(p, k), k), Dbl(FALSE, BigMulAddSmall(BigShr(p, k), 1, 1), k)}

\* convertUnits, power being what 10 ** |decimalDiff| evaluated to
convertUnits(amount, fromDecimals, toDecimals, power) ==
  LET amountBigInt == ToBigInt(amount)
      decimalDiff  == toDecimals - fromDecimals
      factor       == BigIntOfNumber(power)
  IN  IF amountBigInt.outcome # "returned" THEN amountBigInt
      ELSE IF decimalDiff > 0
        THEN [outcome |-> "returned", big |-> BigMul(amountBigInt.big, factor.big)]
      ELSE IF decimalDiff < 0
        THEN [outcome |-> "returned", big |-> BigDiv(amountBigInt.big, factor.big)]
      ELSE amountBigInt

\* the try block has nothing that throws: parseFloat and the comparisons
\* return for every input
isValidAmount(amount) ==
  IF amount.t = "bigint" THEN [outcome |-> "returned", value |-> ~amount.v.neg]
  ELSE LET num == IF amount.t = "string" THEN ParseFloat(amount.v) ELSE amount.v
       IN  [outcome |-> "returned", value |-> ~num.nan /\ DblNonNegative(num)]

\* compareAmounts without the case of equal amounts
compareAmounts_NeverEqual(a, b) ==
  LET aBigInt == ToBigInt(a)
      bBigInt == ToBigInt(b)
  IN  IF aBigInt.outcome # "returned" THEN aBigInt
      ELSE IF bBigInt.outcome # "returned" THEN bBigInt
      ELSE [outcome |-> "returned", value |-> IF BigLess(aBigInt.big, bBigInt.big) THEN -1 ELSE 1]

compareAmounts(a, b) ==
  LET aBigInt == ToBigInt(a)
      bBigInt == ToBigInt(b)
  IN  IF aBigInt.outcome # "returned" THEN aBigInt
      ELSE IF bBigInt.outcome # "returned" THEN bBigInt
      ELSE [outcome |-> "returned",
            value   |-> IF BigLess(aBigInt.big, bBigInt.big) THEN -1
                        ELSE IF BigLess(bBigInt.big, aBigInt.big) THEN 1
                        ELSE 0]

(***************************************************************************)
(* accountUtils.ts: normalizeAddress.                                      *)
(***************************************************************************)
\* normalizeAddress padding on the right
normalizeAddress_PadEnd(address) ==
  LET prefixed == IF ~StartsWith0x(address) THEN <<"0", "x">> \o address ELSE address
      hex      == ToLowerCase(Slice(prefixed, 2, Len(prefixed)))
  IN  [outcome |-> "returned", value |-> <<"0", "x">> \o PadEnd(hex, 64, "0")]

normalizeAddress(address) ==
  LET prefixed == IF ~StartsWith0x(address) THEN <<"0", "x">> \o address ELSE address
      hex      == ToLowerCase(Slice(prefixed, 2, Len(prefixed)))
  IN  [outcome |-> "returned", value |-> <<"0", "x">> \o PadStart(hex, 64, "0")]

(***************************************************************************)
(* moveUtils.ts: parseMoveTypeString.                                      *)
(***************************************************************************)
\* s.indexOf(c)
IndexOf(s, c) ==
  LET at == {i \in 1..Len(s) : s[i] = c}
  IN  IF at = {} THEN -1 ELSE (CHOOSE i \in at : \A j \in at : i <= j) - 1

\* the loop over genericPart with a split at every comma, whatever the depth
SplitTypeArgs_AnyDepth(genericPart) ==
  LET Body(st, i) ==
        LET char == genericPart[i]
        IN  IF char = "<"
              THEN [st EXCEPT !.depth = st.depth + 1, !.current = Append(st.current, char)]
            ELSE IF char = ">"
              THEN [st EXCEPT !.depth = st.depth - 1, !.current = Append(st.current, char)]
            ELSE IF char = ","
              THEN [st EXCEPT !.typeArgs = Append(st.typeArgs, TrimBlanks(st.current)),
                              !.current = <<>>]
            ELSE [st EXCEPT !.current = Append(st.current, char)]
      end == ForLoop(Body, [typeArgs |-> <<>>, depth |-> 0, current |-> <<>>], 1, Len(genericPart))
  IN  IF TrimBlanks(end.current) # <<>>
        THEN Append(end.typeArgs, TrimBlanks(end.current))
        ELSE end.typeArgs

\* the loop over genericPart and the push of the last argument
SplitTypeArgs(genericPart) ==
  LET Body(st, i) ==
        LET char == genericPart[i]
        IN  IF char = "<"
              THEN [st EXCEPT !.depth = st.depth + 1, !.current = Append(st.current, char)]
            ELSE IF char = ">"
              THEN [st EXCEPT !.depth = st.depth - 1, !.current = Append(st.current, char)]
            ELSE IF char = "," /\ st.depth = 0
              THEN [st EXCEPT !.typeArgs = Append(st.typeArgs, TrimBlanks(st.current)),
                              !.current = <<>>]
            ELSE [st EXCEPT !.current = Append(st.current, char)]
      end == ForLoop(Body, [typeArgs |-> <<>>, depth |-> 0, current |-> <<>>], 1, Len(genericPart))
  IN  IF TrimBlanks(end.current) # <<>>
        THEN Append(end.typeArgs, TrimBlanks(end.current))
        ELSE end.typeArgs

parseMoveTypeString(typeStr) ==
  LET genericStart == IndexOf(typeStr, "<")
  IN  IF genericStart = -1
        THEN [outcome |-> "returned", baseType |-> typeStr, typeArgs |-> <<>>]
        ELSE [outcome  |-> "returned",
              baseType |-> StrSlice(typeStr, 0, genericStart),
              typeArgs |-> SplitTypeArgs(StrSlice(typeStr, genericStart + 1, -1))]

(***************************************************************************)
(* accountUtils.ts: isValidAddress; actions: the handlers of the account,  *)
(* transfer, coin and transaction resources, and the client methods they   *)
(* call.  A handler's result carries, in calls, the requests that left for *)
(* the network, each with the address it was given (<<>> when it has       *)
(* none).  Request number fails of a run is the one that fails (0: none).  *)
(***************************************************************************)
\* ADDRESS_REGEX.test(address), after the check for an empty string
isValidAddress(address) ==
  /\ Len(address) > 0
  /\ StartsWith0x(address)
  /\ Len(address) - 2 \in 1..64
  /\ \A i \in 3..Len(address) : IsHexDigit(address[i])

NoAddress == <<>>

Request(method, address) == [method |-> method, address |-> address]

\* a handler that throws before any request
Rejected(message) == [outcome |-> "throws", message |-> message, calls |-> <<>>]

\* a handler that returns without any request
Answered == [outcome |-> "returned", message |-> "", calls |-> <<>>]

\* the requests of plan, awaited one after the other: the failing one throws
Await(plan, fails) ==
  IF fails \in 1..Len(plan)
    THEN [outcome |-> "throws", message |-> "request failed", calls |-> SubSeq(plan, 1, fails)]
    ELSE [outcome |-> "returned", message |-> "", calls |-> plan]

\* AptosClientWrapper.submitTransaction with an account: build, sign, submit
SubmitRequests(address) ==
  <<Request("transaction.build.simple", address),
    Request("transaction.sign", NoAddress),
    Request("transaction.submit.simple", NoAddress)>>

\* AptosClientWrapper.transferApt with an account
TransferAptRequests(address) ==
  <<Request("transferCoinTransaction", address),
    Request("transaction.sign", NoAddress),
    Request("transaction.submit.simple", NoAddress)>>

\* AptosClientWrapper.estimateGas with an account: simulateTransaction
EstimateGasRequests(address) ==
  <<Request("transaction.build.simple", address),
    Request("transaction.simulate.simple", NoAddress)>>

WaitRequests == <<Request("waitForTransaction", NoAddress)>>

\* the client method of an account operation that reads by address
AccountMethod(operation) ==
  CASE operation = "get" -> "getAccount"
    [] operation = "getBalance" -> "getAccountBalance"
    [] operation = "getResources" -> "getAccountResources"
    [] operation = "getResource" -> "getAccountResource"
    [] operation = "getModules" -> "getAccountModules"
    [] operation = "getTransactions" -> "getAccountTransactions"
    [] operation = "getSequenceNumber" -> "getAccount"

AccountReads ==
  {"get", "getBalance", "getResources", "getResource", "getModules", "getTransactions",
   "getSequenceNumber"}

\* derive and create, which work on keys through the SDK and take no address,
\* are left out
executeAccountOperation(operation, address, fails) ==
  IF operation \in AccountReads
    THEN IF ~isValidAddress(address) THEN Rejected("Invalid address")
         ELSE Await(<<Request(AccountMethod(operation), normalizeAddress(address).value)>>, fails)
  ELSE IF operation = "checkExists"
    THEN IF ~isValidAddress(address) THEN Answered
         ELSE Await(<<Request("accountExists", normalizeAddress(address).value)>>, fails)
  ELSE IF operation = "validateAddress" THEN Answered
  ELSE Rejected("Unsupported account operation")

\* a client without an account throws in submitTransaction, transferApt and
\* simulateTransaction before any request
\* the switch of the handler on octas = aptToOctas(amount) and
\* to = normalizeAddress(address), each evaluated in the cases that use it
TransferOperation(operation, hasSigner, address, octas, to, wait, fails) ==
      IF operation = "transferApt"
        THEN IF ~hasSigner THEN Rejected("Authentication required")
             ELSE IF ~isValidAddress(address) THEN Rejected("Invalid address")
             ELSE IF octas.outcome # "returned" THEN Rejected(octas.message)
             ELSE Await(TransferAptRequests(to) \o (IF wait THEN WaitRequests ELSE <<>>), fails)
      ELSE IF operation = "transferCoin"
        THEN IF ~hasSigner THEN Rejected("Authentication required")
             ELSE IF ~isValidAddress(address) THEN Rejected("Invalid address")
             ELSE Await(SubmitRequests(to) \o (IF wait THEN WaitRequests ELSE <<>>), fails)
      ELSE IF operation = "getCoinStore"
        THEN Await(<<Request("getAccountResource", to)>>, fails)
      ELSE IF operation = "checkBalanceSufficient"
        THEN LET read == Await(<<Request("getAccountBalance", to)>>, fails)
             IN  IF read.outcome = "returned" /\ octas.outcome # "returned"
                   THEN [read EXCEPT !.outcome = "throws", !.message = octas.message]
                   ELSE read
      ELSE IF operation = "registerCoin"
        THEN IF ~hasSigner THEN Rejected("Authentication required")
             ELSE Await(SubmitRequests(NoAddress) \o WaitRequests, fails)
      ELSE IF operation = "estimateFee"
        THEN IF ~hasSigner THEN Rejected("Authentication required")
             ELSE IF octas.outcome # "returned" THEN Rejected(octas.message)
             ELSE Await(EstimateGasRequests(to), fails)
      ELSE Rejected("Unsupported transfer operation")

executeTransferOperation(operation, hasSigner, address, amountApt, wait, fails) ==
  TransferOperation(operation, hasSigner, address, aptToOctas(amountApt),
                    normalizeAddress(address).value, wait, fails)

\* coinType.split('::')[0]
SplitFirst(coinType) ==
  LET at == {i \in 1..(Len(coinType) - 1) : coinType[i] = ":" /\ coinType[i + 1] = ":"}
  IN  IF at = {} THEN coinType
      ELSE SubSeq(coinType, 1, (CHOOSE i \in at : \A j \in at : i <= j) - 1)

executeCoinOperation(operation, hasSigner, address, coinType, fails) ==
  LET to          == normalizeAddress(address).value
      coinAddress == normalizeAddress(SplitFirst(coinType)).value
  IN  IF operation = "getBalance"
        THEN Await(<<Request("getCoinBalance", to)>>, fails)
      ELSE IF operation \in {"getInfo", "getSupply"}
        THEN Await(<<Request("getAccountResource", coinAddress)>>, fails)
      ELSE IF operation = "checkExists"
        THEN [Await(<<Request("getAccountResource", coinAddress)>>, fails)
                EXCEPT !.outcome = "returned", !.message = ""]
      ELSE IF operation = "register"
        THEN IF ~hasSigner THEN Rejected("Authentication required")
             ELSE Await(SubmitRequests(NoAddress) \o WaitRequests, fails)
      ELSE IF operation = "transfer"
        THEN IF ~hasSigner THEN Rejected("Authentication required")
             ELSE Await(SubmitRequests(to) \o WaitRequests, fails)
      ELSE Answered

\* the submit operation of the transaction resource; parsed is whether
\* JSON.parse accepts the functionArguments parameter
executeTransactionSubmit(hasSigner, parsed, fails) ==
  IF ~hasSigner THEN Rejected("Authentication required")
  ELSE IF ~parsed THEN Rejected("Unexpected token")
  ELSE Await(SubmitRequests(NoAddress) \o WaitRequests, fails)

\* the handler of the transaction resource; getAccountTransactions hands the
\* address parameter to the client as it is
executeTransactionOperation(operation, hasSigner, address, parsed, fails) ==
  IF operation \in {"getByHash", "getByVersion", "wait"}
    THEN Await(<<Request(IF operation = "getByHash" THEN "getTransactionByHash"
                         ELSE IF operation = "getByVersion" THEN "getTransactionByVersion"
                         ELSE "waitForTransaction", NoAddress)>>, fails)
  ELSE IF operation = "getAccountTransactions"
    THEN Await(<<Request("getAccountTransactions", address)>>, fails)
  ELSE IF operation = "submit" THEN executeTransactionSubmit(hasSigner, parsed, fails)
  ELSE IF operation \in {"simulate", "estimateGas"}
    THEN IF ~hasSigner THEN Rejected("Authentication required")
         ELSE IF ~parsed THEN Rejected("Unexpected token")
         ELSE Await(EstimateGasRequests(NoAddress), fails)
  ELSE Rejected("Unsupported transaction operation")

(***************************************************************************)
(* Aptos.execute: the loop over the input items.  An item carries the      *)
(* parameters getNodeParameter gives for its index.                        *)
(***************************************************************************)
\* the switch on resource for item i (from 0).  The account and transaction
\* handlers are invoked with .call(this, client, operation, i): their
\* parameters (execFns, client, operation, index) receive client, operation
\* and i, so that the handler's operation is the number i.  The block,
\* utility and faucet resources, dispatched like transfer and coin, are left
\* out.
ExecuteItem(item, i, hasSigner) ==
  IF item.resource = "account"
    THEN executeAccountOperation(ToString(i), item.address, item.fails)
  ELSE IF item.resource = "transaction"
    THEN executeTransactionOperation(ToString(i), hasSigner, item.address, TRUE, item.fails)
  ELSE IF item.resource = "transfer"
    THEN executeTransferOperation(item.operation, hasSigner, item.address,
                                  [t |-> "number", v |-> ParseFloat(<<"1", ".", "5">>)], TRUE,
                                  item.fails)
  ELSE IF item.resource = "coin"
    THEN executeCoinOperation(item.operation, hasSigner, item.address,
                              <<"0", "x", "1", ":", ":", "c", ":", ":", "S">>, item.fails)
  ELSE Rejected("Unknown resource")

\* one round of the loop that drops the entry of a failed item
ExecuteStep_DropFailed(st, items, k, hasSigner, continueOnFail) ==
  IF st.outcome = "throws" THEN st
  ELSE LET i      == k - 1
           result == ExecuteItem(items[k], i, hasSigner)
           begun  == [st EXCEPT !.started = Append(st.started, i),
                                !.calls = st.calls \o result.calls]
       IN  IF result.outcome = "returned"
             THEN [begun EXCEPT !.returnData =
                     Append(st.returnData, [error |-> FALSE, message |-> "", pairedItem |-> i])]
           ELSE IF continueOnFail THEN begun
           ELSE [begun EXCEPT !.outcome = "throws", !.message = result.message, !.itemIndex = i]

\* the try and the catch around item i, result being what its handler did
ExecuteTry(st, i, result, continueOnFail) ==
  LET begun == [st EXCEPT !.started = Append(st.started, i),
                          !.calls = st.calls \o result.calls]
  IN  IF result.outcome = "returned"
        THEN [begun EXCEPT !.returnData =
                Append(st.returnData, [error |-> FALSE, message |-> "", pairedItem |-> i])]
      ELSE IF continueOnFail
        THEN [begun EXCEPT !.returnData =
                Append(st.returnData,
                       [error |-> TRUE, message |-> result.message, pairedItem |-> i])]
      ELSE [begun EXCEPT !.outcome = "throws", !.message = result.message, !.itemIndex = i]

\* one round of the loop: item k of the sequence, index k - 1
ExecuteStep(st, items, k, hasSigner, continueOnFail) ==
  IF st.outcome = "throws" THEN st
  ELSE ExecuteTry(st, k - 1, ExecuteItem(items[k], k - 1, hasSigner), continueOnFail)

\* authMethod: none gives a client without account, privateKey one with an
\* account; a privateKey method without a key throws before the loop
execute(items, authMethod, continueOnFail) ==
  LET start == [outcome |-> "returned", message |-> "", itemIndex |-> -1,
                returnData |-> <<>>, started |-> <<>>, calls |-> <<>>]
      Body(st, k) == ExecuteStep(st, items, k, authMethod = "privateKey", continueOnFail)
  IN  IF authMethod = "noKey"
        THEN [start EXCEPT !.outcome = "throws", !.message = "Private key is required"]
        ELSE ForLoop(Body, start, 1, Len(items))

(***************************************************************************)
(* AptosTrigger.node.ts: poll.  The static data of the workflow outlives   *)
(* the poll; what the network answers is a parameter of the poll.          *)
(***************************************************************************)
\* a number or a string that may be undefined
UndefinedNumber == [defined |-> FALSE, v |-> 0]

UndefinedString == [defined |-> FALSE, v |-> <<>>]

Defined(v) == [defined |-> TRUE, v |-> v]

\* n.toString() for a bigint
RECURSIVE BigIntToString(_)
BigIntToString(x) ==
  IF x.neg THEN <<"-">> \o BigIntToString(BigNeg(x))
  ELSE LET qr == BigDivModSmall(x, 10)
       IN  IF qr.q = BigZero THEN <<LowerHex[qr.r + 1]>>
           ELSE BigIntToString(qr.q) \o <<LowerHex[qr.r + 1]>>

\* parseInt(s, 10) of a string that starts with a decimal digit
ParseInt10(s) == SmallDecimalValue(s, 1, DigitRun(s, 1))

\* (x as number) || 0
NumberOrZero(x) == IF x.defined THEN x.v ELSE 0

\* (x as string) || '0'
StringOrZero(x) == IF x.defined /\ x.v # <<>> THEN x.v ELSE <<"0">>

\* return null
NoEvent(data) == [outcome |-> "returned", emitted |-> FALSE, json |-> [triggerType |-> "none"],
                  data |-> data]

\* return [[{ json }]]
Event(json, data) == [outcome |-> "returned", emitted |-> TRUE, json |-> json, data |-> data]

\* the balanceChanged case forgetting the balance when the request fails
pollBalanceChanged_ForgetOnFailure(p, data) ==
  LET lastBalance == StringOrZero(data.lastBalance)
      balanceStr  == BigIntToString(p.balance)
      stored2     == [data EXCEPT !.lastBalance = Defined(balanceStr)]
  IN  IF p.address = <<>> THEN NoEvent(data)
      ELSE IF ~p.balanceOk THEN NoEvent([data EXCEPT !.lastBalance = Defined(<<"0">>)])
      ELSE IF balanceStr # lastBalance /\ lastBalance # <<"0">>
        THEN Event([triggerType |-> "balanceChanged", address |-> p.address,
                    previousBalance |-> lastBalance, currentBalance |-> balanceStr,
                    change |-> BigIntToString(BigSub(p.balance, StringToBigInt(lastBalance).big)),
                    increased |-> BigLess(StringToBigInt(lastBalance).big, p.balance)],
                   stored2)
      ELSE NoEvent(IF balanceStr # lastBalance THEN stored2 ELSE data)

\* case 'balanceChanged'; a failing getAccountBalance ends in the catch
\* the emitted item of the balanceChanged case
BalanceChanged(address, previousBalance, currentBalance, change) ==
  [triggerType |-> "balanceChanged", address |-> address,
   previousBalance |-> previousBalance, currentBalance |-> currentBalance,
   change |-> BigIntToString(change), increased |-> ~change.neg /\ change # BigZero]

\* the comparison of the balance read, balanceStr, with the stored one
BalanceCompared(p, data, lastBalance, balanceStr) ==
  IF balanceStr # lastBalance
    THEN IF lastBalance # <<"0">>
           THEN Event(BalanceChanged(p.address, lastBalance, balanceStr,
                                     BigSub(p.balance, StringToBigInt(lastBalance).big)),
                      [data EXCEPT !.lastBalance = Defined(balanceStr)])
           ELSE NoEvent([data EXCEPT !.lastBalance = Defined(balanceStr)])
  ELSE NoEvent(data)

pollBalanceChanged(p, data) ==
  IF p.address = <<>> THEN NoEvent(data)
  ELSE IF ~p.balanceOk THEN NoEvent(data)
  ELSE BalanceCompared(p, data, StringOrZero(data.lastBalance), BigIntToString(p.balance))

\* case 'newBlock' with >= for >
pollNewBlock_AtLeast(p, data) ==
  LET lastVersion    == NumberOrZero(data.lastVersion)
      currentVersion == ParseInt10(p.ledger_version)
  IN  IF currentVersion >= lastVersion
        THEN Event([triggerType |-> "newBlock", ledgerVersion |-> p.ledger_version,
                    epoch |-> p.epoch],
                   [data EXCEPT !.lastVersion = Defined(currentVersion)])
        ELSE NoEvent(data)

\* case 'newBlock'
pollNewBlock(p, data) ==
  LET lastVersion    == NumberOrZero(data.lastVersion)
      currentVersion == ParseInt10(p.ledger_version)
  IN  IF currentVersion > lastVersion
        THEN Event([triggerType |-> "newBlock", ledgerVersion |-> p.ledger_version,
                    epoch |-> p.epoch],
                   [data EXCEPT !.lastVersion = Defined(currentVersion)])
        ELSE NoEvent(data)

\* case 'newEpoch'
pollNewEpoch(p, data) ==
  LET lastEpoch    == StringOrZero(data.lastEpoch)
      currentEpoch == p.epoch
      stored2      == [data EXCEPT !.lastEpoch = Defined(currentEpoch)]
  IN  IF currentEpoch # lastEpoch
        THEN IF lastEpoch # <<"0">>
               THEN Event([triggerType |-> "newEpoch", previousEpoch |-> lastEpoch,
                           currentEpoch |-> currentEpoch, ledgerVersion |-> p.ledger_version],
                          stored2)
               ELSE NoEvent(stored2)
        ELSE NoEvent(data)

\* case 'transactionConfirmed' remembering in lastVersion that it fired
pollTransactionConfirmed_Once(p, data) ==
  IF p.hash = <<>> \/ ~p.txFound \/ data.lastVersion.defined THEN NoEvent(data)
  ELSE Event([triggerType |-> "transactionConfirmed", hash |-> p.hash],
             [data EXCEPT !.lastVersion = Defined(0)])

\* case 'transactionConfirmed'; a failing getTransactionByHash is caught
pollTransactionConfirmed(p, data) ==
  IF p.hash = <<>> THEN NoEvent(data)
  ELSE IF p.txFound THEN Event([triggerType |-> "transactionConfirmed", hash |-> p.hash], data)
  ELSE NoEvent(data)

\* poll with the parameters and the answers p, on the static data
poll(p, data) ==
  IF ~p.ledgerOk THEN NoEvent(data)
  ELSE IF p.triggerType = "newBlock" THEN pollNewBlock(p, data)
  ELSE IF p.triggerType = "newEpoch" THEN pollNewEpoch(p, data)
  ELSE IF p.triggerType = "balanceChanged" THEN pollBalanceChanged(p, data)
  ELSE IF p.triggerType = "transactionConfirmed" THEN pollTransactionConfirmed(p, data)
  ELSE NoEvent(data)

(***************************************************************************)
(* eventStream.ts: EventStreamManager.  pollBlocks is taken as one step;   *)
(* pollEvents is cut at its awaits, so that polls started by the timer     *)
(* while an earlier one waits for an answer run interleaved.               *)
(***************************************************************************)
maxBlocks == 10

\* Math.max(this.state.lastBlockHeight + 1, currentHeight - maxBlocks)
startHeight(lastBlockHeight, currentHeight) == Max(lastBlockHeight + 1, currentHeight - maxBlocks)

\* the heights pushed by the loop: from startHeight to currentHeight, but for
\* the blocks that could not be fetched
BlockHeights(lastBlockHeight, currentHeight, unfetched) ==
  LET start == startHeight(lastBlockHeight, currentHeight)
  IN  SelectSeq([k \in 1..Max(currentHeight - start + 1, 0) |-> start + k - 1],
                LAMBDA height : height \notin unfetched)

\* pollBlocks on the manager's state; ledgerOk is whether getLedgerInfo
\* answers, currentHeight what it answers
pollBlocks(st, ledgerOk, currentHeight, unfetched) ==
  IF ~ledgerOk THEN [outcome |-> "throws", blocks |-> <<>>, state |-> st]
  ELSE IF currentHeight <= st.lastBlockHeight
    THEN [outcome |-> "returned", blocks |-> <<>>, state |-> st]
  ELSE [outcome |-> "returned",
        blocks  |-> BlockHeights(st.lastBlockHeight, currentHeight, unfetched),
        state   |-> [st EXCEPT !.lastBlockHeight = currentHeight]]

\* a poll under way: where it waits, and the version it read
Activation(pc, currentVersion, remaining) ==
  [pc |-> pc, currentVersion |-> currentVersion, remaining |-> remaining]

\* s without its element i
Without(s, i) == SubSeq(s, 1, i - 1) \o SubSeq(s, i + 1, Len(s))

(***************************************************************************)
(* Inputs.                                                                 *)
(***************************************************************************)
\* the bits of a little-endian byte sequence
BitsOfBytes(bs) ==
  [i \in 1..(8 * Len(bs)) |-> (bs[((i - 1) \div 8) + 1] \div 2^((i - 1) % 8)) % 2]

\* p bytes 1, 8, 15, ... below a top byte
RampBytes(p, top) == [i \in 1..(p + 1) |-> IF i = p + 1 THEN top ELSE (7 * (i - 1) + 1) % 256]

TopBytes == {1, 127, 128, 255}

BitPatterns ==
  {Rep(0, k) : k \in 0..MaxBits} \cup {Rep(1, k) : k \in 0..MaxBits}
    \cup {Rep(0, k) \o <<1>> : k \in 0..MaxBits}
    \cup {<<1>> \o Rep(0, k) : k \in 0..MaxBits}
    \cup {BitsOfBytes(RampBytes(p, t)) : p \in 0..MaxBytePos, t \in TopBytes}
    \cup {BigFromNat(k).bits : k \in 0..MaxSmall}

\* the integers the encoders are called with: of both signs
IntInputs == {Norm(neg, bits) : neg \in BOOLEAN, bits \in BitPatterns}

\* the integers a number holds exactly: up to 2^53 in magnitude
NumberInputs == {x \in IntInputs : Len(x.bits) <= 53}

\* address strings: an optional 0x, then at most one character, a run of one
\* digit and at most one more character
AddrHeads == {<<>>, <<"1">>, <<"A">>, <<"g">>, <<"-">>, <<" ">>}

AddrTails == {<<>>, <<"f">>, <<"B">>, <<"x">>, <<"G">>}

AddrInputs ==
  {pre \o head \o Rep(c, r) \o tail :
     pre \in {<<>>, <<"0", "x">>}, head \in AddrHeads, c \in {"0", "9", "e"},
     r \in 0..MaxAddrRun, tail \in AddrTails}

\* code units: A, e-acute, the euro sign, the two halves of U+1F600, and the
\* byte order mark U+FEFF
StrUnits == {65, 233, 8364, 55357, 56832, 65279}

\* all sequences over S of length at most n
SeqsUpTo(S, n) == UNION {[1..k -> S] : k \in 0..n}

StrInputs ==
  SeqsUpTo(StrUnits, MaxStrLen)
    \cup {head \o Rep(u, r) : head \in {<<>>, <<65>>}, u \in {65, 233}, r \in 0..MaxRun}

\* pre-encoded items
ItemSamples == {<<>>, <<0>>, <<128>>, <<1, 2>>, <<255, 0, 7>>}

VecInputs ==
  SeqsUpTo(ItemSamples, MaxItems)
    \cup {Rep(item, r) : item \in {<<>>, <<128>>, <<1, 2>>}, r \in 0..MaxRun}

\* byte sequences handed to decodeU64: short ones, and ramps of 1 to
\* MaxDecPos + 1 bytes with up to two more bytes after them
DecInputs ==
  SeqsUpTo({0, 1, 128, 255}, MaxShort)
    \cup {RampBytes(p, t) \o tail :
           p \in 0..MaxDecPos, t \in TopBytes, tail \in {<<>>, <<255>>, <<1, 2>>}}

\* values of the five kinds
Bool(b) == [t |-> "boolean", v |-> b]

Num(x) == [t |-> "number", v |-> x]

Big(x) == [t |-> "bigint", v |-> x]

Str(chars) == [t |-> "string", v |-> chars]

Arr(items) == [t |-> "array", v |-> items]

\* amounts in APT as decimal strings: a whole part and a fraction
AptWholeParts ==
  {<<"0">>,
   <<"1">>,
   <<"7">>,
   <<"1", "2">>,
   <<"1", "0", "0">>,
   <<"4", "0", "9", "6">>,
   <<"3", "3", "7", "0", "3", "2", "8", "6">>,
   <<"3", "3", "6", "0", "9", "9", "7", "1">>,
   <<"9", "0", "0", "7", "1", "9", "9", "2">>,
   <<"1", "2", "3", "4", "5", "6", "7", "8", "9">>,
   <<"1", "0", "0", "0", "0", "0", "0", "0", "0", "0">>}

AptFractions ==
  {<<>>,
   <<".", "5">>,
   <<".", "2">>,
   <<".", "2", "5">>,
   <<".", "0", "7">>,
   <<".", "0", "0", "0", "0", "0", "0", "0", "1">>,
   <<".", "1", "2", "3", "4", "5", "6", "7", "8">>,
   <<".", "5", "4", "7", "4", "0", "9", "9", "3">>,
   <<".", "9", "4", "7", "1", "8", "7", "8">>,
   <<".", "1", "2", "3", "4", "5", "6", "7", "8", "9">>,
   <<".", "9", "9", "9", "9", "9", "9", "9", "9", "5">>}

AptStrings == {w \o f : w \in AptWholeParts, f \in AptFractions}

\* integer amounts as decimal literals, up to 27 digits
IntLiterals ==
  {<<"0">>,
   <<"1">>,
   <<"1", "9", "9">>,
   <<"1", "2", "3", "4", "5", "6", "7", "8", "9">>,
   <<"9", "0", "0", "7", "1", "9", "9", "2", "5", "4", "7", "4", "0", "9", "9", "2">>,
   <<"9", "9", "9", "9", "9", "9", "9", "9", "9", "9", "9", "9", "9", "9", "9", "9", "1", "6", "1", "1", "3", "9", "2">>,
   <<"1", "2", "3", "4", "5", "6", "7", "8", "9", "0", "1", "2", "3", "4", "5", "6", "7", "8", "9", "0", "1", "2", "3", "4", "5", "6", "7">>}

\* an integer amount as a bigint, as a string, or as a number
\* the digits of a literal, without its sign
Unsigned(chars) == IF Len(chars) > 0 /\ chars[1] = "-" THEN Tail(chars) ELSE chars

IntAmount(kind, chars) ==
  IF kind = "bigint" THEN Big(StringToBigInt(chars).big)
  ELSE IF kind = "string" THEN Str(chars)
  ELSE Num(Dbl(chars[1] = "-", DecimalValue(Unsigned(chars)), 0))

\* the representations an integer has: a number only up to 2^53
IntKinds(chars) ==
  IF Len(DecimalValue(Unsigned(chars)).bits) <= 53 THEN {"bigint", "string", "number"}
  ELSE {"bigint", "string"}

\* integers of both signs as decimal literals
SignedLiterals ==
  {<<"0">>,
   <<"5">>,
   <<"-", "5">>,
   <<"7">>,
   <<"-", "1">>,
   <<"9", "0", "0", "7", "1", "9", "9", "2", "5", "4", "7", "4", "0", "9", "9", "2">>,
   <<"9", "0", "0", "7", "1", "9", "9", "2", "5", "4", "7", "4", "0", "9", "9", "3">>,
   <<"-", "9", "0", "0", "7", "1", "9", "9", "2", "5", "4", "7", "4", "0", "9", "9", "3">>,
   <<"1", "2", "3", "4", "5", "6", "7", "8", "9", "0", "1", "2", "3", "4", "5", "6", "7", "8", "9", "0", "1", "2", "3", "4", "5", "6", "7">>,
   <<"-", "1", "2", "3", "4", "5", "6", "7", "8", "9", "0", "1", "2", "3", "4", "5", "6", "7", "8", "9", "0", "1", "2", "3", "4", "5", "6", "7">>}

\* an integer in one of its representations
IntReps == {<<chars, kind>> : chars \in SignedLiterals, kind \in {"bigint", "string", "number"}}

\* strings handed to isValidAmount: numerals, and strings that are none
AmountStrings ==
  {<<"5">>,
   <<"0">>,
   <<"-", "1">>,
   <<"a", "b", "c">>,
   <<>>,
   <<"1", "2", "a", "b", "c">>,
   <<"1", ".", "5">>,
   <<" ", "7">>,
   <<"-", "0">>,
   <<"1", ",", "0", "0", "0">>,
   <<".">>,
   <<"-">>,
   <<"+", "3">>,
   <<"1", ".", "2", ".", "3">>,
   <<"3", ".">>,
   <<"-", ".", "5">>,
   <<"0", ".", "0">>,
   <<"-", "0", ".", "2", "5">>,
   <<"x", "1">>}

\* literals of the numbers handed to isValidAmount
AmountNumberLiterals ==
  {<<"0">>,
   <<"-", "1">>,
   <<"1", "0", "0">>,
   <<"0", ".", "5">>,
   <<"-", "0", ".", "5">>,
   <<"-", "0">>,
   <<"3", "3", "7", "0", "3", "2", "8", "6", ".", "2">>}


\* pairs <<fromDecimals, toDecimals>>
DecimalPairs ==
  {<<0, t>> : t \in 0..MaxDecimals} \cup {<<f, 0>> : f \in 0..MaxDecimals}
    \cup {<<6, 8>>, <<8, 6>>, <<18, 6>>, <<8, 8>>}

\* an amount as a string, or as the number its literal denotes
AptAmount(kind, chars) == IF kind = "string" THEN Str(chars) ELSE Num(ParseFloat(chars))

\* 2^k
TwoTo(k) == Norm(FALSE, Rep(0, k) \o <<1>>)

\* bigints handed to isValidAmount
AmountBigs == {BigZero, BigFromNat(100), TwoTo(70), BigNeg(BigFromNat(1)), BigNeg(TwoTo(70))}

\* the spellings of the primitive tags that are drawn
PrimTags ==
  {TagBool, TagU8, TagU16, TagU32, TagU64, TagU128, TagU256, TagAddress, TagString,
   <<"U", "6", "4">>, <<"B", "o", "o", "l">>}

\* values of the type a primitive tag names
PrimValues(tag) ==
  LET lower == ToLowerCase(tag)
  IN  IF lower = TagBool THEN {Bool(TRUE), Bool(FALSE)}
      ELSE IF lower = TagU8 THEN {Num(BigFromNat(7)), Num(BigFromNat(255))}
      ELSE IF lower = TagU16 THEN {Num(BigFromNat(258)), Num(BigFromNat(65535))}
      ELSE IF lower = TagU32 THEN {Num(BigFromNat(65536)), Num(TwoTo(31))}
      ELSE IF lower = TagU64 THEN {Num(BigFromNat(5)), Big(TwoTo(63))}
      ELSE IF lower = TagU128 THEN {Big(BigFromNat(1)), Big(TwoTo(127))}
      ELSE IF lower = TagU256 THEN {Big(BigFromNat(1)), Big(TwoTo(255))}
      ELSE IF lower = TagAddress
        THEN {Str(<<"0", "x", "1">>), Str(<<"a", "B">>)}
      ELSE {Str(<<>>), Str(<<233, 8364>>)}

\* the tag vector<...<prim>...> with depth levels of vector
RECURSIVE MoveTag(_, _)
MoveTag(depth, prim) ==
  IF depth = 0 THEN prim ELSE VectorPrefix \o MoveTag(depth - 1, prim) \o <<">">>

\* values of the type MoveTag(depth, prim): every list of at most
\* MaxMoveItems primitive values, and around the values one level down an
\* empty list, a list of one and a list of two
RECURSIVE MoveValues(_, _)
MoveValues(depth, prim) ==
  IF depth = 0 THEN PrimValues(prim)
  ELSE IF depth = 1 THEN {Arr(xs) : xs \in SeqsUpTo(PrimValues(prim), MaxMoveItems)}
  ELSE {Arr(<<>>)}
         \cup {Arr(<<x>>) : x \in MoveValues(depth - 1, prim)}
         \cup {Arr(<<x, Arr(<<>>)>>) : x \in MoveValues(depth - 1, prim)}

\* hex strings denoting 0, 1, 2 and 3 bytes
HexByteStrings ==
  {<<>>, <<"0", "x">>, <<"0", "x", "0", "1">>, <<"f", "F">>, <<"0", "x", "0", "1", "a", "b">>,
   <<"d", "e", "a", "d", "0", "0">>}

\* tags outside the recognized set
OtherTags ==
  {<<>>, <<"f", "o", "o">>, <<"u", "7">>, <<"s", "i", "g", "n", "e", "r">>,
   <<"v", "e", "c", "t", "o", "r">>, TagStdString,
   <<"V", "e", "c", "t", "o", "r", "<", "u", "8", ">">>,
   VectorPrefix \o <<"f", "o", "o", ">">>,
   VectorPrefix \o <<">">>,
   VectorPrefix \o <<"u", "8", "x">>,
   VectorPrefix \o VectorPrefix \o <<"u", "7", ">", ">">>}

OtherValues == {Arr(<<>>), Arr(<<Num(BigFromNat(1))>>)}

\* bytes around an encoded value: before it (skipped by offset) and after it
CtxPrefixes == {<<>>, <<128>>, <<255, 1>>}

CtxSuffixes == {<<>>, <<0>>, <<128, 127>>}

(***************************************************************************)
(* The calls.                                                              *)
(***************************************************************************)
Idle == fn = "idle"

\* no call made yet; empty static data; a manager constructed without
\* startVersion and addresses, with no timer; the ledger at its start
Init ==
  /\ fn = "idle"
  /\ arg = [value |-> BigZero]
  /\ ret = [outcome |-> "none"]
  /\ workflowStaticData = [lastVersion |-> UndefinedNumber, lastBalance |-> UndefinedString,
                           lastEpoch |-> UndefinedString]
  /\ options = [addresses |-> <<>>]
  /\ state = [lastVersion |-> 0, lastBlockHeight |-> 0]
  /\ pollingTimer = [handle |-> 0, live |-> {}]
  /\ polls = <<>>
  /\ ledger = [version |-> 0, height |-> 0]

\* the same with a manager constructed with or without addresses to watch
InitManager ==
  /\ fn = "idle"
  /\ arg = [value |-> BigZero]
  /\ ret = [outcome |-> "none"]
  /\ workflowStaticData = [lastVersion |-> UndefinedNumber, lastBalance |-> UndefinedString,
                           lastEpoch |-> UndefinedString]
  /\ options \in {[addresses |-> <<>>], [addresses |-> <<<<"0", "x", "1">>>>]}
  /\ state = [lastVersion |-> 0, lastBlockHeight |-> 0]
  /\ pollingTimer = [handle |-> 0, live |-> {}]
  /\ polls = <<>>
  /\ ledger = [version |-> 0, height |-> 0]

CallEncodeU8 ==
  /\ Idle
  /\ UNCHANGED stored
  /\ \E value \in NumberInputs :
       /\ fn' = "encodeU8"
       /\ arg' = [value |-> value]
       /\ ret' = encodeU8(value)

CallEncodeU16 ==
  /\ Idle
  /\ UNCHANGED stored
  /\ \E value \in NumberInputs :
       /\ fn' = "encodeU16"
       /\ arg' = [value |-> value]
       /\ ret' = encodeU16(value)

CallEncodeU32 ==
  /\ Idle
  /\ UNCHANGED stored
  /\ \E value \in NumberInputs :
       /\ fn' = "encodeU32"
       /\ arg' = [value |-> value]
       /\ ret' = encodeU32(value)

CallEncodeU64 ==
  /\ Idle
  /\ UNCHANGED stored
  /\ \E value \in IntInputs :
       /\ fn' = "encodeU64"
       /\ arg' = [value |-> value]
       /\ ret' = encodeU64(value)

CallEncodeU128 ==
  /\ Idle
  /\ UNCHANGED stored
  /\ \E value \in IntInputs :
       /\ fn' = "encodeU128"
       /\ arg' = [value |-> value]
       /\ ret' = encodeU128(value)

CallEncodeU256 ==
  /\ Idle
  /\ UNCHANGED stored
  /\ \E value \in IntInputs :
       /\ fn' = "encodeU256"
       /\ arg' = [value |-> value]
       /\ ret' = encodeU256(value)

\* decodeU64 applied to what encodeU64 returned for value
CallDecodeU64 ==
  /\ Idle
  /\ UNCHANGED stored
  /\ \E value \in IntInputs :
       /\ fn' = "decodeU64"
       /\ arg' = [value |-> value, bytes |-> encodeU64(value).bytes]
       /\ ret' = [outcome |-> "returned", big |-> decodeU64(encodeU64(value).bytes)]

NextInt ==
  \/ CallEncodeU8
  \/ CallEncodeU16
  \/ CallEncodeU32
  \/ CallEncodeU64
  \/ CallEncodeU128
  \/ CallEncodeU256
  \/ CallDecodeU64

SpecInt == Init /\ [][NextInt]_vars

CallEncodeUleb128 ==
  /\ Idle
  /\ UNCHANGED stored
  /\ \E value \in NumberInputs :
       /\ fn' = "encodeUleb128"
       /\ arg' = [value |-> value]
       /\ ret' = encodeUleb128(value)

\* decodeUleb128 at offset |P| of P ++ encodeUleb128(value) ++ S; when
\* encodeUleb128 does not return there is nothing to decode
CallDecodeUleb128 ==
  /\ Idle
  /\ UNCHANGED stored
  /\ \E value \in NumberInputs, P \in CtxPrefixes, S \in CtxSuffixes :
       LET enc == encodeUleb128(value)
       IN  /\ fn' = "decodeUleb128"
           /\ arg' = [value |-> value, P |-> P, S |-> S, enc |-> enc]
           /\ ret' = IF enc.outcome = "returned"
                       THEN decodeUleb128(P \o enc.bytes \o S, Len(P))
                       ELSE [outcome |-> enc.outcome]

NextUleb ==
  \/ CallEncodeUleb128
  \/ CallDecodeUleb128

SpecUleb == Init /\ [][NextUleb]_vars

CallEncodeAddress ==
  /\ Idle
  /\ UNCHANGED stored
  /\ \E address \in AddrInputs :
       /\ fn' = "encodeAddress"
       /\ arg' = [address |-> address]
       /\ ret' = encodeAddress(address)

SpecAddr == Init /\ [][CallEncodeAddress]_vars

CallEncodeString ==
  /\ Idle
  /\ UNCHANGED stored
  /\ \E value \in StrInputs :
       /\ fn' = "encodeString"
       /\ arg' = [value |-> value]
       /\ ret' = encodeString(value)

\* decodeString at offset |P| of P ++ encodeString(value) ++ S
CallDecodeString ==
  /\ Idle
  /\ UNCHANGED stored
  /\ \E value \in StrInputs, P \in CtxPrefixes, S \in CtxSuffixes :
       LET enc == encodeString(value).bytes
       IN  /\ fn' = "decodeString"
           /\ arg' = [value |-> value, P |-> P, S |-> S, enc |-> enc]
           /\ ret' = decodeString(P \o enc \o S, Len(P))

NextStr ==
  \/ CallEncodeString
  \/ CallDecodeString

SpecStr == Init /\ [][NextStr]_vars

CallEncodeVector ==
  /\ Idle
  /\ UNCHANGED stored
  /\ \E items \in VecInputs :
       /\ fn' = "encodeVector"
       /\ arg' = [items |-> items]
       /\ ret' = encodeVector(items)

SpecVec == Init /\ [][CallEncodeVector]_vars

\* decodeU64 on a byte sequence of any length
CallDecodeU64Bytes ==
  /\ Idle
  /\ UNCHANGED stored
  /\ \E bytes \in DecInputs :
       /\ fn' = "decodeU64"
       /\ arg' = [bytes |-> bytes]
       /\ ret' = [outcome |-> "returned", big |-> decodeU64(bytes)]

SpecDec == Init /\ [][CallDecodeU64Bytes]_vars

CallAptToOctas ==
  /\ Idle
  /\ UNCHANGED stored
  /\ \E kind \in {"string", "number"}, chars \in AptStrings :
       /\ fn' = "aptToOctas"
       /\ arg' = [apt |-> AptAmount(kind, chars), literal |-> chars]
       /\ ret' = aptToOctas(AptAmount(kind, chars))

SpecApt == Init /\ [][CallAptToOctas]_vars

CallConvertUnits ==
  /\ Idle
  /\ UNCHANGED stored
  /\ \E chars \in IntLiterals, pair \in DecimalPairs :
       \E kind \in IntKinds(chars), power \in PowTenNumbers(Max(pair[2] - pair[1], pair[1] - pair[2])) :
         /\ fn' = "convertUnits"
         /\ arg' = [amount |-> IntAmount(kind, chars), a |-> DecimalValue(chars),
                    fromDecimals |-> pair[1], toDecimals |-> pair[2], power |-> power]
         /\ ret' = convertUnits(IntAmount(kind, chars), pair[1], pair[2], power)

SpecConvert == Init /\ [][CallConvertUnits]_vars

\* type names in front of the type arguments
TypeBases ==
  {<<"S">>,
   <<"v", "e", "c", "t", "o", "r">>,
   <<"0", "x", "1", ":", ":", "c", ":", ":", "S">>,
   <<" ", "T">>}

\* type arguments with balanced angle brackets, commas inside some of them
TypeArgSamples ==
  {<<"u", "8">>,
   <<"T">>,
   <<"v", "e", "c", "t", "o", "r", "<", "u", "8", ">">>,
   <<"M", "<", "K", ",", "V", ">">>,
   <<"M", "<", "K", ",", " ", "V", ">">>,
   <<"a", "<", "b", "<", "c", ",", "d", ">", ",", "e", ">">>,
   <<"0", "x", "1", ":", ":", "c", ":", ":", "S">>}

\* type strings with no '<'
PlainTypes ==
  {<<"u", "8">>,
   <<"0", "x", "1", ":", ":", "c", ":", ":", "S">>,
   <<>>,
   <<" ", "u", "8", " ">>,
   <<"a", ",", "b">>,
   <<"a", ">", "b">>,
   <<"a", ",", " ", "b">>,
   <<"T", ">">>,
   <<"v", "e", "c", "t", "o", "r">>}

\* args[1] sep args[2] sep ... args[n]
RECURSIVE Join(_, _)
Join(args, sep) ==
  IF args = <<>> THEN <<>>
  ELSE IF Len(args) = 1 THEN args[1]
  ELSE args[1] \o sep \o Join(Tail(args), sep)

\* the type string B<A1, ..., An>
GenericType(base, args, sep) == base \o <<"<">> \o Join(args, sep) \o <<">">>

\* parseMoveTypeString on B<A1, ..., An>, the arguments set apart by a comma
\* or by a comma and a blank
CallParseMoveTypeString ==
  /\ Idle
  /\ UNCHANGED stored
  /\ \E base \in TypeBases, n \in 0..MaxTypeArgs, sep \in {<<",">>, <<",", " ">>} :
       \E args \in [1..n -> TypeArgSamples] :
         /\ fn' = "parseMoveTypeString"
         /\ arg' = [typeStr |-> GenericType(base, args, sep), generic |-> TRUE,
                    base |-> base, args |-> args]
         /\ ret' = parseMoveTypeString(GenericType(base, args, sep))

\* parseMoveTypeString on a string with no '<'
CallParseMoveTypePlain ==
  /\ Idle
  /\ UNCHANGED stored
  /\ \E typeStr \in PlainTypes :
       /\ fn' = "parseMoveTypeString"
       /\ arg' = [typeStr |-> typeStr, generic |-> FALSE, base |-> typeStr, args |-> <<>>]
       /\ ret' = parseMoveTypeString(typeStr)

NextParse ==
  \/ CallParseMoveTypeString
  \/ CallParseMoveTypePlain

SpecParse == Init /\ [][NextParse]_vars

\* address parameters: valid ones, and ones isValidAddress refuses
HandlerAddresses ==
  {<<"0", "x", "1">>,
   <<"0", "x", "A", "b">>,
   <<"1">>,
   <<"0", "x", "z", "z">>,
   <<>>,
   <<" ", "0", "x", "1">>,
   <<"0", "x", "1", " ">>,
   <<"0", "x">> \o Rep("f", 64),
   <<"0", "x">> \o Rep("f", 65)}

\* coinType parameters
HandlerCoinTypes ==
  {<<"0", "x", "1", ":", ":", "c", ":", ":", "S">>,
   <<"z", "z", ":", ":", "c", ":", ":", "S">>}

\* amountApt parameters: 1.5 and NaN
HandlerAmounts == {Num(ParseFloat(<<"1", ".", "5">>)), Num(NaN)}

AccountOperations == AccountReads \cup {"checkExists", "validateAddress", "other"}

TransferOperations ==
  {"transferApt", "transferCoin", "getCoinStore", "checkBalanceSufficient", "registerCoin",
   "estimateFee", "other"}

CoinOperations ==
  {"getBalance", "getInfo", "getSupply", "checkExists", "register", "transfer", "getAllCoins"}

CallExecuteAccountOperation ==
  /\ Idle
  /\ UNCHANGED stored
  /\ \E operation \in AccountOperations, address \in HandlerAddresses, fails \in 0..MaxRequests :
       /\ fn' = "executeAccountOperation"
       /\ arg' = [operation |-> operation, address |-> address, hasSigner |-> FALSE,
                  fails |-> fails]
       /\ ret' = executeAccountOperation(operation, address, fails)

CallExecuteTransferOperation ==
  /\ Idle
  /\ UNCHANGED stored
  /\ \E operation \in TransferOperations, hasSigner \in BOOLEAN, address \in HandlerAddresses,
        amountApt \in HandlerAmounts, wait \in BOOLEAN, fails \in 0..MaxRequests :
       /\ fn' = "executeTransferOperation"
       /\ arg' = [operation |-> operation, address |-> address, hasSigner |-> hasSigner,
                  fails |-> fails, amountApt |-> amountApt, wait |-> wait]
       /\ ret' = executeTransferOperation(operation, hasSigner, address, amountApt, wait, fails)

CallExecuteCoinOperation ==
  /\ Idle
  /\ UNCHANGED stored
  /\ \E operation \in CoinOperations, hasSigner \in BOOLEAN, address \in HandlerAddresses,
        coinType \in HandlerCoinTypes, fails \in 0..MaxRequests :
       /\ fn' = "executeCoinOperation"
       /\ arg' = [operation |-> operation, address |-> address, hasSigner |-> hasSigner,
                  fails |-> fails, coinType |-> coinType]
       /\ ret' = executeCoinOperation(operation, hasSigner, address, coinType, fails)

TransactionOperations ==
  {"getByHash", "getByVersion", "getAccountTransactions", "wait", "submit", "simulate",
   "estimateGas", "other"}

CallExecuteTransactionOperation ==
  /\ Idle
  /\ UNCHANGED stored
  /\ \E operation \in TransactionOperations, hasSigner \in BOOLEAN,
        address \in HandlerAddresses, parsed \in BOOLEAN, fails \in 0..MaxRequests :
       /\ fn' = "executeTransactionOperation"
       /\ arg' = [operation |-> operation, address |-> address, hasSigner |-> hasSigner,
                  fails |-> fails, parsed |-> parsed]
       /\ ret' = executeTransactionOperation(operation, hasSigner, address, parsed, fails)

NextHandlers ==
  \/ CallExecuteAccountOperation
  \/ CallExecuteTransferOperation
  \/ CallExecuteCoinOperation
  \/ CallExecuteTransactionOperation

SpecHandlers == Init /\ [][NextHandlers]_vars

\* the parameters of a poll and what the network answers
PollInput(triggerType, ledgerOk, version, epoch, address, balanceOk, balance, hash, txFound) ==
  [triggerType |-> triggerType, ledgerOk |-> ledgerOk,
   ledger_version |-> BigIntToString(BigFromNat(version)), epoch |-> epoch,
   address |-> address, balanceOk |-> balanceOk, balance |-> BigFromNat(balance),
   hash |-> hash, txFound |-> txFound]

\* epochs the ledger reports
Epochs == {<<"0">>, <<"1">>, <<"2">>}

PollNewBlock ==
  \E ledgerOk \in BOOLEAN, version \in 0..MaxVersion :
    LET p == PollInput("newBlock", ledgerOk, version, <<"1">>, <<>>, TRUE, 0, <<>>, FALSE)
    IN  \E polled \in {poll(p, workflowStaticData)} :
          /\ fn' = "poll"
          /\ arg' = p
          /\ ret' = [outcome |-> "returned", emitted |-> polled.emitted, json |-> polled.json]
          /\ workflowStaticData' = polled.data
          /\ UNCHANGED manager

PollNewEpoch ==
  \E ledgerOk \in BOOLEAN, epoch \in Epochs :
    LET p == PollInput("newEpoch", ledgerOk, 1, epoch, <<>>, TRUE, 0, <<>>, FALSE)
    IN  \E polled \in {poll(p, workflowStaticData)} :
          /\ fn' = "poll"
          /\ arg' = p
          /\ ret' = [outcome |-> "returned", emitted |-> polled.emitted, json |-> polled.json]
          /\ workflowStaticData' = polled.data
          /\ UNCHANGED manager

PollBalanceChanged ==
  \E ledgerOk \in BOOLEAN, address \in {<<>>, <<"0", "x", "1">>}, balanceOk \in BOOLEAN,
     balance \in 0..MaxBalance :
    LET p == PollInput("balanceChanged", ledgerOk, 1, <<"1">>, address, balanceOk, balance,
                  <<>>, FALSE)
    IN  \E polled \in {poll(p, workflowStaticData)} :
          /\ fn' = "poll"
          /\ arg' = p
          /\ ret' = [outcome |-> "returned", emitted |-> polled.emitted, json |-> polled.json]
          /\ workflowStaticData' = polled.data
          /\ UNCHANGED manager

PollTransactionConfirmed ==
  \E ledgerOk \in BOOLEAN, hash \in {<<>>, <<"0", "x", "a", "b">>}, txFound \in BOOLEAN :
    LET p == PollInput("transactionConfirmed", ledgerOk, 1, <<"1">>, <<>>, TRUE, 0, hash,
                  txFound)
    IN  \E polled \in {poll(p, workflowStaticData)} :
          /\ fn' = "poll"
          /\ arg' = p
          /\ ret' = [outcome |-> "returned", emitted |-> polled.emitted, json |-> polled.json]
          /\ workflowStaticData' = polled.data
          /\ UNCHANGED manager

NextTrigger ==
  \/ PollNewBlock
  \/ PollNewEpoch
  \/ PollBalanceChanged
  \/ PollTransactionConfirmed

SpecTrigger == Init /\ [][NextTrigger]_vars

\* the ledger produces blocks
BlockProduced ==
  /\ \E height \in (ledger.height + 1)..MaxHeight : ledger' = [ledger EXCEPT !.height = height]
  /\ fn' = "ledger"
  /\ arg' = [value |-> BigZero]
  /\ ret' = [outcome |-> "none"]
  /\ UNCHANGED <<workflowStaticData, options, state, pollingTimer, polls>>

\* pollBlocks, some of the blocks failing to be fetched
CallPollBlocks ==
  /\ \E ledgerOk \in BOOLEAN, unfetched \in {{}, {ledger.height}, 1..MaxHeight} :
       \E polled \in {pollBlocks(state, ledgerOk, ledger.height, unfetched)} :
         /\ fn' = "pollBlocks"
         /\ arg' = [ledgerOk |-> ledgerOk, unfetched |-> unfetched]
         /\ ret' = [outcome |-> polled.outcome, blocks |-> polled.blocks]
         /\ state' = polled.state
  /\ UNCHANGED <<workflowStaticData, options, pollingTimer, polls, ledger>>

NextBlocks ==
  \/ BlockProduced
  \/ CallPollBlocks

SpecBlocks == Init /\ [][NextBlocks]_vars

\* the ledger commits transactions
VersionProduced ==
  /\ \E version \in (ledger.version + 1)..MaxVersion : ledger' = [ledger EXCEPT !.version = version]
  /\ fn' = "ledger"
  /\ arg' = [value |-> BigZero]
  /\ ret' = [outcome |-> "none"]
  /\ UNCHANGED <<workflowStaticData, options, state, pollingTimer, polls>>

\* startPolling: nothing when a timer is set, else setInterval
StartPolling ==
  /\ fn' = "startPolling"
  /\ arg' = [value |-> BigZero]
  /\ ret' = [outcome |-> "returned"]
  /\ IF pollingTimer.handle # 0 THEN UNCHANGED pollingTimer
     ELSE \E id \in 1..MaxTimers :
            /\ id \notin pollingTimer.live
            /\ pollingTimer' = [handle |-> id, live |-> pollingTimer.live \cup {id}]
  /\ UNCHANGED <<workflowStaticData, options, state, polls, ledger>>

\* stopPolling: clearInterval when a timer is set
StopPolling ==
  /\ fn' = "stopPolling"
  /\ arg' = [value |-> BigZero]
  /\ ret' = [outcome |-> "returned"]
  /\ pollingTimer' = IF pollingTimer.handle # 0
                       THEN [handle |-> 0, live |-> pollingTimer.live \ {pollingTimer.handle}]
                       ELSE pollingTimer
  /\ UNCHANGED <<workflowStaticData, options, state, polls, ledger>>

\* an interval fires, or pollEvents is called: the poll asks for the ledger
\* info and waits
PollEventsStarts ==
  /\ Len(polls) < MaxPolls
  /\ \E timer \in pollingTimer.live \cup {0} :
       /\ fn' = "pollEvents"
       /\ arg' = [timer |-> timer]
       /\ ret' = [outcome |-> "pending"]
  /\ polls' = Append(polls, Activation("getLedgerInfo", 0, 0))
  /\ UNCHANGED <<workflowStaticData, options, state, pollingTimer, ledger>>

\* the ledger info arrives (or the request fails): the poll returns when the
\* version is not above lastVersion, writes the state when there is no
\* address to watch, else asks for the first account resource and waits
PollEventsReadsLedger ==
  \E i \in 1..Len(polls), ledgerOk \in BOOLEAN :
    LET currentVersion == ledger.version
    IN  /\ polls[i].pc = "getLedgerInfo"
        /\ fn' = "pollEvents"
        /\ arg' = [value |-> BigZero]
        /\ IF ~ledgerOk
             THEN /\ ret' = [outcome |-> "throws"]
                  /\ polls' = Without(polls, i)
                  /\ UNCHANGED state
           ELSE IF currentVersion <= state.lastVersion
             THEN /\ ret' = [outcome |-> "returned"]
                  /\ polls' = Without(polls, i)
                  /\ UNCHANGED state
           ELSE IF Len(options.addresses) > 0
             THEN /\ ret' = [outcome |-> "pending"]
                  /\ polls' = [polls EXCEPT ![i] = Activation("getAccountResource", currentVersion,
                                                              Len(options.addresses))]
                  /\ UNCHANGED state
           ELSE /\ ret' = [outcome |-> "returned"]
                /\ polls' = Without(polls, i)
                /\ state' = [state EXCEPT !.lastVersion = currentVersion]
        /\ UNCHANGED <<workflowStaticData, options, pollingTimer, ledger>>

\* an account resource arrives (a failure is caught): the next address is
\* asked for, or the state is written with the version read at the start
PollEventsReadsAccount ==
  \E i \in 1..Len(polls) :
    /\ polls[i].pc = "getAccountResource"
    /\ fn' = "pollEvents"
    /\ arg' = [value |-> BigZero]
    /\ IF polls[i].remaining > 1
         THEN /\ ret' = [outcome |-> "pending"]
              /\ polls' = [polls EXCEPT ![i].remaining = polls[i].remaining - 1]
              /\ UNCHANGED state
         ELSE /\ ret' = [outcome |-> "returned"]
              /\ polls' = Without(polls, i)
              /\ state' = [state EXCEPT !.lastVersion = polls[i].currentVersion]
    /\ UNCHANGED <<workflowStaticData, options, pollingTimer, ledger>>

NextEvents ==
  \/ VersionProduced
  \/ StartPolling
  \/ StopPolling
  \/ PollEventsStarts
  \/ PollEventsReadsLedger
  \/ PollEventsReadsAccount

SpecEvents == InitManager /\ [][NextEvents]_vars

Item(resource, operation, address, fails) ==
  [resource |-> resource, operation |-> operation, address |-> address, fails |-> fails]

\* input items: operations that succeed, that are refused, whose request
\* fails, and a resource the node does not know
ExecItems ==
  {Item("account", "getBalance", <<"0", "x", "1">>, 0),
   Item("transaction", "submit", NoAddress, 0),
   Item("transfer", "transferCoin", <<"0", "x", "1">>, 0),
   Item("transfer", "transferCoin", <<"0", "x", "1">>, 2),
   Item("transfer", "transferCoin", <<"0", "x", "z", "z">>, 0),
   Item("transfer", "getCoinStore", <<"0", "x", "1">>, 1),
   Item("transfer", "getCoinStore", <<"0", "x", "1">>, 0),
   Item("coin", "register", NoAddress, 0),
   Item("coin", "transfer", <<"0", "x", "1">>, 0),
   Item("nft", "get", NoAddress, 0)}

CallExecute ==
  /\ Idle
  /\ UNCHANGED stored
  /\ \E n \in 0..MaxExecItems, authMethod \in {"none", "privateKey", "noKey"},
        continueOnFail \in BOOLEAN :
       \E items \in [1..n -> ExecItems] :
         /\ fn' = "execute"
         /\ arg' = [items |-> items, authMethod |-> authMethod, continueOnFail |-> continueOnFail]
         /\ ret' = execute(items, authMethod, continueOnFail)

SpecExecute == Init /\ [][CallExecute]_vars

\* normalizeAddress on an address string, well-formed or not
CallNormalizeAddress ==
  /\ Idle
  /\ UNCHANGED stored
  /\ \E address \in AddrInputs :
       /\ fn' = "normalizeAddress"
       /\ arg' = [address |-> address]
       /\ ret' = normalizeAddress(address)

SpecNorm == Init /\ [][CallNormalizeAddress]_vars

\* isValidAmount on a string, a number (NaN among them) or a bigint
CallIsValidAmount ==
  /\ Idle
  /\ UNCHANGED stored
  /\ \/ \E chars \in AmountStrings :
          /\ fn' = "isValidAmount"
          /\ arg' = [amount |-> Str(chars)]
          /\ ret' = isValidAmount(Str(chars))
     \/ \E num \in {ParseFloat(chars) : chars \in AmountNumberLiterals} \cup {NaN} :
          /\ fn' = "isValidAmount"
          /\ arg' = [amount |-> Num(num)]
          /\ ret' = isValidAmount(Num(num))
     \/ \E big \in AmountBigs :
          /\ fn' = "isValidAmount"
          /\ arg' = [amount |-> Big(big)]
          /\ ret' = isValidAmount(Big(big))

\* compareAmounts on two integers, each in one of its representations
CallCompareAmounts ==
  /\ Idle
  /\ UNCHANGED stored
  /\ \E x \in IntReps, y \in IntReps :
       /\ x[2] \in IntKinds(x[1])
       /\ y[2] \in IntKinds(y[1])
       /\ fn' = "compareAmounts"
       /\ arg' = [x |-> x, y |-> y]
       /\ ret' = compareAmounts(IntAmount(x[2], x[1]), IntAmount(y[2], y[1]))

NextAmounts ==
  \/ CallIsValidAmount
  \/ CallCompareAmounts

SpecAmounts == Init /\ [][NextAmounts]_vars

\* encodeMoveArg on a recognized tag and a value of its type
CallEncodeMoveArg ==
  /\ Idle
  /\ UNCHANGED stored
  /\ \E depth \in 0..MaxDepth, prim \in PrimTags :
       \E value \in MoveValues(depth, prim) :
         /\ fn' = "encodeMoveArg"
         /\ arg' = [type |-> MoveTag(depth, prim), value |-> value, typed |-> TRUE]
         /\ ret' = encodeMoveArg(MoveTag(depth, prim), value)

\* encodeMoveArg on vector<u8> and a hex string
CallEncodeMoveArgHex ==
  /\ Idle
  /\ UNCHANGED stored
  /\ \E hex \in HexByteStrings :
       /\ fn' = "encodeMoveArg"
       /\ arg' = [type |-> MoveTag(1, TagU8), value |-> Str(hex), typed |-> FALSE]
       /\ ret' = encodeMoveArg(MoveTag(1, TagU8), Str(hex))

\* encodeMoveArg on a tag outside the recognized set
CallEncodeMoveArgOther ==
  /\ Idle
  /\ UNCHANGED stored
  /\ \E type \in OtherTags, value \in OtherValues :
       /\ fn' = "encodeMoveArg"
       /\ arg' = [type |-> type, value |-> value, typed |-> FALSE]
       /\ ret' = encodeMoveArg(type, value)

NextMove ==
  \/ CallEncodeMoveArg
  \/ CallEncodeMoveArgHex
  \/ CallEncodeMoveArgOther

SpecMove == Init /\ [][NextMove]_vars

(***************************************************************************)
(* Claims about the fixed-width encoders.                                  *)
(***************************************************************************)
IntEncoders == {"encodeU8", "encodeU16", "encodeU32", "encodeU64", "encodeU128", "encodeU256"}

Width(f) ==
  CASE f = "encodeU8"   -> 8
    [] f = "encodeU16"  -> 16
    [] f = "encodeU32"  -> 32
    [] f = "encodeU64"  -> 64
    [] f = "encodeU128" -> 128
    [] f = "encodeU256" -> 256

EncodeAs(w, n) ==
  CASE w = 8   -> encodeU8(n)
    [] w = 16  -> encodeU16(n)
    [] w = 32  -> encodeU32(n)
    [] w = 64  -> encodeU64(n)
    [] w = 128 -> encodeU128(n)
    [] w = 256 -> encodeU256(n)

\* 0 <= n < 2^w
InRange(n, w) == ~n.neg /\ Len(n.bits) <= w

\* floor(n / 256^i) mod 256, read off the binary expansion of n
ByteOf(n, i) == BitSum([j \in 0..7 |-> BitAt(n, 8 * i + j)], 0, 7)

\* floor(n / 256^i) mod 256 by integer arithmetic, for n < 2^30
ByteOfNat(k, i) == IF i > 3 THEN 0 ELSE (k \div 256^i) % 256

\* C1: for an integer 0 <= n < 2^w the encoder of width w returns exactly
\* w/8 bytes, byte i being floor(n / 256^i) mod 256 (little-endian), also
\* for u32 values from 2^31 on; a wider encoder's output is a narrower
\* encoder's output for the same n followed by zero bytes only.
C1_LittleEndian ==
  (fn \in IntEncoders /\ InRange(arg.value, Width(fn))) =>
    LET n  == arg.value
        nb == Width(fn) \div 8
    IN  /\ ret.outcome = "returned"
        /\ Len(ret.bytes) = nb
        /\ \A i \in 0..(nb - 1) : ret.bytes[i + 1] = ByteOf(n, i)
        /\ Len(n.bits) <= 30 =>
             \A i \in 0..(nb - 1) : ret.bytes[i + 1] = ByteOfNat(BigToNat(n), i)
        /\ \A w \in {8, 16, 32, 64, 128} :
             (w < Width(fn) /\ InRange(n, w)) =>
               ret.bytes = EncodeAs(w, n).bytes \o Rep(0, nb - w \div 8)

\* C1 witness: encodeU32(2^31) returned 00 00 00 80
C1_Witness ==
  /\ fn = "encodeU32"
  /\ arg.value = Norm(FALSE, Rep(0, 31) \o <<1>>)
  /\ ret = Returned(<<0, 0, 0, 128>>)

\* C2: every encoder fails with a RangeError on an input n < 0 and on an
\* input n >= 2^width; no out-of-range value is truncated to bytes.
C2_OutOfRangeRejected ==
  (fn \in IntEncoders /\ ~InRange(arg.value, Width(fn))) =>
    /\ ret.outcome = "throws"
    /\ ret.error = "RangeError"

\* C3: decodeU64(encodeU64(n)) = n for every integer 0 <= n < 2^64.
C3_U64RoundTrip ==
  (fn = "decodeU64" /\ InRange(arg.value, 64)) =>
    /\ ret.outcome = "returned"
    /\ ret.big = arg.value

\* C3 witness: 2^64 - 1 went through ff ff ff ff ff ff ff ff and came back
C3_Witness ==
  /\ fn = "decodeU64"
  /\ arg.value = Norm(FALSE, Rep(1, 64))
  /\ arg.bytes = Rep(255, 8)
  /\ ret.big = arg.value

(***************************************************************************)
(* Claims about ULEB128.                                                   *)
(***************************************************************************)
\* the number v (a 32-bit result) equals the integer k
NumEq(k, v) == v >= 0 /\ BigFromNat(v) = k

\* C4: for every integer k >= 0 and byte sequences P and S,
\* decodeUleb128(P ++ encodeUleb128(k) ++ S, |P|) returns value k and a
\* bytes-consumed count equal to the length of encodeUleb128(k).
C4_UlebRoundTrip ==
  (fn = "decodeUleb128" /\ ~arg.value.neg) =>
    /\ ret.outcome = "returned"
    /\ NumEq(arg.value, ret.value)
    /\ ret.bytesRead = Len(arg.enc.bytes)

\* C5: encodeUleb128 terminates for every integer n >= 0; every byte it
\* emits but the last has the high bit set, the last has it clear, and
\* n = 0 gives the single byte 0x00.
C5_UlebTerminates ==
  (fn = "encodeUleb128" /\ ~arg.value.neg) =>
    /\ ret.outcome = "returned"
    /\ Len(ret.bytes) >= 1
    /\ \A i \in 1..(Len(ret.bytes) - 1) : ret.bytes[i] >= 128
    /\ ret.bytes[Len(ret.bytes)] < 128
    /\ arg.value = BigZero => ret.bytes = <<0>>

\* What the code does give: below 2^31 the loop ends, the bytes have the
\* ULEB128 shape and hold the 7-bit groups of n, and the round trip holds.
UlebBelow2p31 ==
  (fn \in {"encodeUleb128", "decodeUleb128"} /\ InRange(arg.value, 31)) =>
    LET n   == arg.value
        enc == IF fn = "encodeUleb128" THEN ret ELSE arg.enc
    IN  /\ enc.outcome = "returned"
        /\ Len(enc.bytes) = Max(1, (Len(n.bits) + 6) \div 7)
        /\ \A i \in 1..Len(enc.bytes) :
             enc.bytes[i] = BitSum([j \in 0..6 |-> BitAt(n, 7 * (i - 1) + j)], 0, 6)
                              + (IF i < Len(enc.bytes) THEN 128 ELSE 0)
        /\ fn = "decodeUleb128" =>
             /\ NumEq(n, ret.value)
             /\ ret.bytesRead = Len(enc.bytes)

(***************************************************************************)
(* Claims about encodeAddress.                                             *)
(***************************************************************************)
\* the input without its optional "0x"
Cleaned(address) ==
  IF StartsWith0x(address) THEN SubSeq(address, 3, Len(address)) ELSE address

AllHex(s) == \A i \in 1..Len(s) : IsHexDigit(s[i])

\* the 32 bytes of the big-endian value of up to 64 hex digits
AddressBytes(digits) ==
  LET d == Rep("0", 64 - Len(digits)) \o digits
  IN  [j \in 1..32 |-> 16 * DigitValue(d[2 * j - 1]) + DigitValue(d[2 * j])]

\* C6: for a string of 1 to 64 hex characters, with or without "0x", in
\* either case, encodeAddress returns exactly 32 bytes: the big-endian value
\* of the digits, left-padded with zero bytes.
C6_AddressBytes ==
  (/\ fn = "encodeAddress"
   /\ Len(Cleaned(arg.address)) \in 1..64
   /\ AllHex(Cleaned(arg.address))) =>
    /\ ret.outcome = "returned"
    /\ Len(ret.bytes) = 32
    /\ ret.bytes = AddressBytes(Cleaned(arg.address))

\* C6 witness: encodeAddress("0x1") returned 31 zero bytes and 0x01
C6_Witness ==
  /\ fn = "encodeAddress"
  /\ arg.address = <<"0", "x", "1">>
  /\ ret = Returned(Rep(0, 31) \o <<1>>)

\* C7: encodeAddress fails with a FormatError when the input without its
\* optional "0x" holds a non-hex character or more than 64 characters; it
\* returns no byte sequence for such input.
C7_AddressRejected ==
  (/\ fn = "encodeAddress"
   /\ \/ ~AllHex(Cleaned(arg.address))
      \/ Len(Cleaned(arg.address)) > 64) =>
    /\ ret.outcome = "throws"
    /\ ret.error = "FormatError"

(***************************************************************************)
(* Claims about strings and vectors.                                       *)
(***************************************************************************)
\* the number of UTF-8 bytes of a string, counted unit by unit: 4 for a
\* surrogate pair, 3 for a lone surrogate (U+FFFD)
Utf8Length(units) ==
  LET Body(sum, i) ==
        IF IsHighSurrogate(units[i]) /\ i < Len(units) /\ IsLowSurrogate(units[i + 1]) THEN sum + 4
        ELSE IF IsLowSurrogate(units[i]) /\ i > 1 /\ IsHighSurrogate(units[i - 1]) THEN sum
        ELSE IF units[i] < 128 THEN sum + 1
        ELSE IF units[i] < 2048 THEN sum + 2
        ELSE sum + 3
  IN  ForLoop(Body, 0, 1, Len(units))

\* C8: encodeString(s) is encodeUleb128(L) followed by the L UTF-8 bytes of
\* s, L being the UTF-8 byte length of s and not its character count; for
\* the empty string it is the single byte 0x00.
C8_StringEncoding ==
  fn = "encodeString" =>
    LET utf8 == TextEncode(arg.value)
        L    == Utf8Length(arg.value)
    IN  /\ ret.outcome = "returned"
        /\ Len(utf8) = L
        /\ ret.bytes = encodeUleb128(BigFromNat(L)).bytes \o utf8
        /\ arg.value = <<>> => ret.bytes = <<0>>

\* C8 witness: "A", e-acute, euro sign: 3 characters, 6 bytes
C8_Witness ==
  /\ fn = "encodeString"
  /\ arg.value = <<65, 233, 8364>>
  /\ ret = Returned(<<6, 65, 195, 169, 226, 130, 172>>)

\* C9: for every string s and byte sequences P and S,
\* decodeString(P ++ encodeString(s) ++ S, |P|) returns value s and a
\* bytes-consumed count equal to the length of encodeString(s).
C9_StringRoundTrip ==
  fn = "decodeString" =>
    /\ ret.outcome = "returned"
    /\ ret.value = arg.value
    /\ ret.bytesRead = Len(arg.enc)

\* every surrogate of the string is half of a pair
NoLoneSurrogate(units) ==
  \A i \in 1..Len(units) :
    /\ IsHighSurrogate(units[i]) => (i < Len(units) /\ IsLowSurrogate(units[i + 1]))
    /\ IsLowSurrogate(units[i]) => (i > 1 /\ IsHighSurrogate(units[i - 1]))

\* What the code does give: the count is always that of encodeString(s),
\* and the value is s when s holds no lone surrogate and does not start
\* with U+FEFF.
StringRoundTripWellFormed ==
  fn = "decodeString" =>
    /\ ret.bytesRead = Len(arg.enc)
    /\ (/\ NoLoneSurrogate(arg.value)
        /\ (arg.value = <<>> \/ arg.value[1] # ByteOrderMark))
         => ret.value = arg.value

\* C10: encodeVector(items) is encodeUleb128(number of items) followed by
\* the items' bytes in list order, unchanged; its length is the prefix
\* length plus the sum of the item lengths.
C10_VectorEncoding ==
  fn = "encodeVector" =>
    LET prefix == encodeUleb128(BigFromNat(Len(arg.items))).bytes
    IN  /\ ret.outcome = "returned"
        /\ ret.bytes = prefix \o Flatten(arg.items)
        /\ Len(ret.bytes) = Len(prefix) + TotalLength(arg.items)

\* C10 witness: 128 two-byte items after the two prefix bytes 80 01
C10_Witness ==
  /\ fn = "encodeVector"
  /\ arg.items = Rep(<<1, 2>>, 128)
  /\ Len(ret.bytes) = 258
  /\ SubSeq(ret.bytes, 1, 4) = <<128, 1, 1, 2>>

(***************************************************************************)
(* Claims about encodeMoveArg.                                             *)
(***************************************************************************)
PrimNames ==
  {TagBool, TagU8, TagU16, TagU32, TagU64, TagU128, TagU256, TagAddress, TagString}

\* the recognized set: a primitive name, or vector<T> with T recognized
RECURSIVE RecognizedTag(_)
RecognizedTag(type) ==
  \/ ToLowerCase(type) \in PrimNames
  \/ /\ Len(type) >= 8
     /\ SubSeq(type, 1, 7) = VectorPrefix
     /\ type[Len(type)] = ">"
     /\ RecognizedTag(SubSeq(type, 8, Len(type) - 1))

\* the element tag T of vector<T>
ElementTag(type) == SubSeq(type, 8, Len(type) - 1)

\* the encoding of a value of a recognized type, by the structure of the type
RECURSIVE ExpectedEncoding(_, _)
ExpectedEncoding(type, value) ==
  LET lower == ToLowerCase(type)
  IN  CASE lower = TagBool    -> <<IF value.v THEN 1 ELSE 0>>
        [] lower = TagU8      -> encodeU8(value.v).bytes
        [] lower = TagU16     -> encodeU16(value.v).bytes
        [] lower = TagU32     -> encodeU32(value.v).bytes
        [] lower = TagU64     -> encodeU64(value.v).bytes
        [] lower = TagU128    -> encodeU128(value.v).bytes
        [] lower = TagU256    -> encodeU256(value.v).bytes
        [] lower = TagAddress -> encodeAddress(value.v).bytes
        [] lower = TagString  -> encodeString(value.v).bytes
        [] OTHER ->
             encodeUleb128(BigFromNat(Len(value.v))).bytes
               \o Flatten([i \in 1..Len(value.v) |-> ExpectedEncoding(ElementTag(type), value.v[i])])

\* C11: for a recognized element tag T, nested to any depth, and a list xs of
\* values of type T, encodeMoveArg("vector<T>", xs) is encodeVector of the
\* list of encodeMoveArg(T, x) for x in xs, in order.
C11_VectorOfElements ==
  (/\ fn = "encodeMoveArg"
   /\ arg.typed
   /\ StartsWith(arg.type, VectorPrefix)) =>
    LET T  == ElementTag(arg.type)
        xs == arg.value.v
    IN  /\ RecognizedTag(T)
        /\ \A i \in 1..Len(xs) : encodeMoveArg(T, xs[i]).outcome = "returned"
        /\ ret = encodeVector([i \in 1..Len(xs) |-> encodeMoveArg(T, xs[i]).bytes])
        /\ ret.bytes = ExpectedEncoding(arg.type, arg.value)

\* C11 witness: vector<vector<u8>> of [[7, 255], []] gave 02 02 07 ff 00
C11_Witness ==
  /\ fn = "encodeMoveArg"
  /\ arg.type = MoveTag(2, TagU8)
  /\ arg.value = Arr(<<Arr(<<Num(BigFromNat(7)), Num(BigFromNat(255))>>), Arr(<<>>)>>)
  /\ ret = Returned(<<2, 2, 7, 255, 0>>)

\* the bytes a string of an even number of hex digits denotes
HexBytes(digits) ==
  [j \in 1..(Len(digits) \div 2) |->
     16 * DigitValue(digits[2 * j - 1]) + DigitValue(digits[2 * j])]

\* C12: for the tag vector<u8> and a hex string, with or without "0x", that
\* denotes n bytes, encodeMoveArg returns encodeUleb128(n) followed by those
\* n bytes; it does not fail.
C12_HexStringBytes ==
  (/\ fn = "encodeMoveArg"
   /\ arg.type = MoveTag(1, TagU8)
   /\ arg.value.t = "string") =>
    LET bytes == HexBytes(Cleaned(arg.value.v))
    IN  /\ ret.outcome = "returned"
        /\ ret.bytes = encodeUleb128(BigFromNat(Len(bytes))).bytes \o bytes

\* C13: encodeMoveArg returns bytes for the tags of the recognized set and
\* fails with the unsupported-type error for every other tag, a vector of an
\* unrecognized element tag included.
C13_RecognizedTagsOnly ==
  fn = "encodeMoveArg" =>
    /\ (RecognizedTag(arg.type) /\ arg.typed) => ret.outcome = "returned"
    /\ ~RecognizedTag(arg.type) =>
         /\ ret.outcome = "throws"
         /\ ret.message = "Unsupported BCS type"

\* What the code does give: a tag that does not start with "vector<" and is
\* no primitive name fails with the unsupported-type error.
UnsupportedOutsideVector ==
  (/\ fn = "encodeMoveArg"
   /\ ~RecognizedTag(arg.type)
   /\ ~StartsWith(arg.type, VectorPrefix)) =>
    /\ ret.outcome = "throws"
    /\ ret.message = "Unsupported BCS type"

(***************************************************************************)
(* Claims about decodeU64 on input of any length.                          *)
(***************************************************************************)
\* the integer whose little-endian bytes are bs
LittleEndianValue(bs) == Norm(FALSE, BitsOfBytes(bs))

\* C14: decodeU64 of fewer than 8 bytes is decodeU64 of the bytes padded
\* with zero bytes to 8; of 8 bytes or more it depends on the first 8 only;
\* the result is always in 0 .. 2^64 - 1.
C14_ShortInputZeroPadded ==
  fn = "decodeU64" =>
    LET b == arg.bytes
        k == Len(b)
    IN  /\ ret.outcome = "returned"
        /\ InRange(ret.big, 64)
        /\ ret.big = LittleEndianValue(SubSeq(b, 1, Min(k, 8)))
        /\ k < 8 => ret.big = decodeU64(b \o Rep(0, 8 - k))
        /\ k >= 8 => \A tail \in CtxSuffixes : ret.big = decodeU64(SubSeq(b, 1, 8) \o tail)

\* C14 witness: the three bytes 01 08 ff decoded to 0xff0801
C14_Witness ==
  /\ fn = "decodeU64"
  /\ arg = [bytes |-> <<1, 8, 255>>]
  /\ ret.big = LittleEndianValue(<<1, 8, 255, 0, 0, 0, 0, 0>>)
  /\ ret.big # BigZero

(***************************************************************************)
(* Claims about unitConverter.ts.                                          *)
(***************************************************************************)
\* the digits of a decimal string "w.f" and the number of those after the point
DecimalDigits(chars) ==
  LET point == {i \in 1..Len(chars) : chars[i] = "."}
      p     == IF point = {} THEN Len(chars) + 1 ELSE CHOOSE i \in point : TRUE
  IN  [digits |-> SubSeq(chars, 1, p - 1) \o SubSeq(chars, p + 1, Len(chars)),
       frac   |-> Max(Len(chars) - p, 0)]

\* the integers nearest to n / 2^k (both neighbours on a tie), for n >= 0
NearestShifted(n, k) ==
  LET whole == BigShr(n, k)
      next  == BigMulAddSmall(whole, 1, 1)
      half  == k >= 1 /\ BitAt(n, k - 1) = 1
      below == \E i \in 1..(k - 1) : BitAt(n, i - 1) = 1
  IN  IF ~half THEN {whole} ELSE IF below THEN {next} ELSE {whole, next}

\* the integers nearest to n / 10^k (both neighbours on a tie), for n >= 0
NearestDecimal(n, k) ==
  LET whole == BigDivNat(n, Pow10(k))
      next  == BigMulAddSmall(whole, 1, 1)
      twice == BigMulAddSmall(BigSub(n, BigMul(whole, Pow10(k))), 2, 0)
  IN  IF BigLess(twice, Pow10(k)) THEN {whole}
      ELSE IF twice = Pow10(k) THEN {whole, next}
      ELSE {next}

\* the integers nearest to a * 10^8 for the amount a
NearestOctas(apt) ==
  IF apt.t = "string"
    THEN LET d == DecimalDigits(apt.v)
             D == DecimalValue(d.digits)
         IN  IF d.frac <= 8 THEN {BigMul(D, Pow10(8 - d.frac))}
             ELSE NearestDecimal(D, d.frac - 8)
    ELSE LET P == BigMul(apt.v.m, Pow10(8))
         IN  IF apt.v.e >= 0 THEN {BigShl(P, apt.v.e)} ELSE NearestShifted(P, 0 - apt.v.e)

\* a * 10^8 for the amount a a literal of at most 8 fractional digits denotes
ExactOctas(literal) ==
  LET d == DecimalDigits(literal)
  IN  BigMul(DecimalValue(d.digits), Pow10(8 - d.frac))

\* C15: for a non-negative amount a, a number or a decimal string,
\* aptToOctas(a) is the integer nearest to a * 10^8; an amount with at most
\* 8 fractional digits gives exactly a * 10^8.
C15_NearestOctas ==
  fn = "aptToOctas" =>
    /\ ret.outcome = "returned"
    /\ ret.big \in NearestOctas(arg.apt)
    /\ DecimalDigits(arg.literal).frac <= 8 => ret.big = ExactOctas(arg.literal)

\* What the code does give: an amount of at most 8 fractional digits is
\* converted exactly while a * 10^8 stays below 2^50.
ExactOctasBelow2p50 ==
  (/\ fn = "aptToOctas"
   /\ DecimalDigits(arg.literal).frac <= 8
   /\ InRange(ExactOctas(arg.literal), 50)) =>
    /\ ret.outcome = "returned"
    /\ ret.big = ExactOctas(arg.literal)

\* floor(a / 10^k) for a >= 0, digit by digit
FloorDivPow10(a, k) ==
  LET Body(q, i) == BigDivModSmall(q, 10).q
  IN  ForLoop(Body, a, 1, k)

\* a * 10^k, digit by digit
TimesPow10(a, k) ==
  LET Body(p, i) == BigMulAddSmall(p, 10, 0)
  IN  ForLoop(Body, a, 1, k)

\* C16: for a non-negative integer amount a, as a bigint, a number or a
\* numeric string, convertUnits returns a * 10^(toDecimals - fromDecimals)
\* when toDecimals >= fromDecimals and floor(a / 10^(fromDecimals -
\* toDecimals)) otherwise; scaling up and then down by the same difference
\* returns a.
C16_ExactRescale ==
  fn = "convertUnits" =>
    LET diff == arg.toDecimals - arg.fromDecimals
    IN  /\ ret.outcome = "returned"
        /\ diff >= 0 => ret.big = TimesPow10(arg.a, diff)
        /\ diff < 0 => ret.big = FloorDivPow10(arg.a, 0 - diff)
        /\ diff >= 0 =>
             convertUnits(Big(ret.big), arg.toDecimals, arg.fromDecimals, arg.power)
               = [outcome |-> "returned", big |-> arg.a]

\* What the code does give: the claim for differences of at most 22, where
\* 10 ** difference is exact.
ExactRescaleUpTo22 ==
  (/\ fn = "convertUnits"
   /\ arg.toDecimals - arg.fromDecimals \in -22..22) =>
    LET diff == arg.toDecimals - arg.fromDecimals
    IN  /\ ret.outcome = "returned"
        /\ diff >= 0 => ret.big = TimesPow10(arg.a, diff)
        /\ diff < 0 => ret.big = FloorDivPow10(arg.a, 0 - diff)
        /\ diff >= 0 =>
             convertUnits(Big(ret.big), arg.toDecimals, arg.fromDecimals, arg.power)
               = [outcome |-> "returned", big |-> arg.a]

\* whether a string, blanks around it aside, is a decimal numeral: an
\* optional sign, digits, at most one point, at least one digit
IsNumeral(chars) ==
  LET t == TrimBlanks(chars)
      u == IF Len(t) > 0 /\ t[1] \in {"+", "-"} THEN Tail(t) ELSE t
  IN  /\ \A i \in 1..Len(u) : IsDecDigit(u[i]) \/ u[i] = "."
      /\ Cardinality({i \in 1..Len(u) : u[i] = "."}) <= 1
      /\ \E i \in 1..Len(u) : IsDecDigit(u[i])

\* whether the amount denotes a quantity that is a number and not negative
DenotesNonNegative(amount) ==
  IF amount.t = "bigint" THEN ~amount.v.neg
  ELSE IF amount.t = "number" THEN ~amount.v.nan /\ (~amount.v.neg \/ amount.v.m = BigZero)
  ELSE /\ IsNumeral(amount.v)
       /\ \/ TrimBlanks(amount.v)[1] # "-"
          \/ \A i \in 1..Len(amount.v) : amount.v[i] \in {"-", "0", ".", " "}

\* C17: isValidAmount never throws; it returns a boolean, true exactly when
\* the input denotes a non-negative numeric quantity that is not NaN.
C17_ValidIffNonNegative ==
  fn = "isValidAmount" =>
    /\ ret.outcome = "returned"
    /\ ret.value \in BOOLEAN
    /\ ret.value = DenotesNonNegative(arg.amount)

\* What the code does give: a boolean for every input, the right one for
\* numbers, bigints and strings that are numerals or have no numeral at
\* their start.
ValidAmountNeverThrows ==
  fn = "isValidAmount" =>
    /\ ret.outcome = "returned"
    /\ ret.value \in BOOLEAN
    /\ (arg.amount.t # "string" \/ IsNumeral(arg.amount.v) \/ ParseFloat(arg.amount.v).nan)
         => ret.value = DenotesNonNegative(arg.amount)

\* the order of two decimal literals, read off the digits: by sign, then by
\* length, then digit by digit from the left
RECURSIVE DigitsOrder(_, _)
DigitsOrder(u, v) ==
  IF Len(u) # Len(v) THEN (IF Len(u) < Len(v) THEN -1 ELSE 1)
  ELSE IF u = <<>> THEN 0
  ELSE IF u[1] # v[1] THEN (IF DigitValue(u[1]) < DigitValue(v[1]) THEN -1 ELSE 1)
  ELSE DigitsOrder(Tail(u), Tail(v))

LiteralOrder(x, y) ==
  LET xn == x[1] = "-"
      yn == y[1] = "-"
  IN  IF xn /\ ~yn THEN -1
      ELSE IF ~xn /\ yn THEN 1
      ELSE IF xn THEN 0 - DigitsOrder(Tail(x), Tail(y))
      ELSE DigitsOrder(x, y)

\* compareAmounts on two representations
Compared(x, y) == compareAmounts(IntAmount(x[2], x[1]), IntAmount(y[2], y[1]))

\* C18: compareAmounts(x, y) is -1, 0 or 1 as x < y, x = y or x > y, whatever
\* the representation of x and y; so compareAmounts(x, y) =
\* -compareAmounts(y, x), and the relation is transitive.
C18_TotalOrder ==
  fn = "compareAmounts" =>
    /\ ret.outcome = "returned"
    /\ ret.value = LiteralOrder(arg.x[1], arg.y[1])
    /\ Compared(arg.y, arg.x).value = 0 - ret.value
    /\ \A z \in IntReps :
         (z[2] \in IntKinds(z[1]) /\ ret.value <= 0 /\ Compared(arg.y, z).value <= 0)
           => Compared(arg.x, z).value <= 0

\* C18 witness: the bigint 9007199254740992 is below the string
\* "9007199254740993", which no number tells apart from it
C18_Witness ==
  /\ fn = "compareAmounts"
  /\ arg.x = <<<<"9", "0", "0", "7", "1", "9", "9", "2", "5", "4", "7", "4", "0", "9", "9", "2">>, "bigint">>
  /\ arg.y = <<<<"9", "0", "0", "7", "1", "9", "9", "2", "5", "4", "7", "4", "0", "9", "9", "3">>, "string">>
  /\ ret = [outcome |-> "returned", value |-> -1]

\* the address without its 0x
AddressBody(address) == IF StartsWith0x(address) THEN Slice(address, 2, Len(address)) ELSE address

\* an address string of 1 to 64 hex characters, with or without 0x
IsAddressString(address) ==
  LET body == AddressBody(address)
  IN  /\ Len(body) \in 1..64
      /\ \A i \in 1..Len(body) : IsHexDigit(body[i])

\* C19: for an address string of 1 to 64 hex characters, with or without 0x,
\* normalizeAddress returns 0x and exactly 64 lowercase hex characters: zeros
\* on the left, then the digits of the address; normalizing the result
\* again changes nothing.
C19_NormalizedAndIdempotent ==
  (fn = "normalizeAddress" /\ IsAddressString(arg.address)) =>
    LET body == AddressBody(arg.address)
        n    == Len(body)
        r    == ret.value
    IN  /\ ret.outcome = "returned"
        /\ Len(r) = 66
        /\ r[1] = "0" /\ r[2] = "x"
        /\ \A i \in 3..66 : \E k \in 1..16 : r[i] = LowerHex[k]
        /\ \A i \in 1..(64 - n) : r[2 + i] = "0"
        /\ \A i \in 1..n : DigitValue(r[66 - n + i]) = DigitValue(body[i])
        /\ normalizeAddress(r) = ret

\* C19 witness: "AB" becomes 0x, 62 zeros and "ab"
C19_Witness ==
  /\ fn = "normalizeAddress"
  /\ arg.address = <<"A", "B">>
  /\ ret = [outcome |-> "returned", value |-> <<"0", "x">> \o Rep("0", 62) \o <<"a", "b">>]

\* C20: for a type string B<A1, ..., An> whose arguments have balanced angle
\* brackets, parseMoveTypeString returns baseType = B and typeArgs =
\* [A1, ..., An], commas inside a nested generic splitting nothing; a string
\* with no '<' comes back as baseType, with no arguments.
C20_BaseAndArguments ==
  fn = "parseMoveTypeString" =>
    /\ ret.outcome = "returned"
    /\ arg.generic => (ret.baseType = arg.base /\ ret.typeArgs = arg.args)
    /\ ~arg.generic => (ret.baseType = arg.typeStr /\ ret.typeArgs = <<>>)

\* C20 witness: S<M<K,V>, a<b<c,d>,e>> has the two arguments M<K,V> and
\* a<b<c,d>,e>
C20_Witness ==
  /\ fn = "parseMoveTypeString"
  /\ arg.typeStr = <<"S", "<", "M", "<", "K", ",", "V", ">", ",", " ",
                     "a", "<", "b", "<", "c", ",", "d", ">", ",", "e", ">", ">">>
  /\ ret.baseType = <<"S">>
  /\ ret.typeArgs = <<<<"M", "<", "K", ",", "V", ">">>,
                      <<"a", "<", "b", "<", "c", ",", "d", ">", ",", "e", ">">>>>

\* the handlers of the claims about action handlers
IsHandler == fn \in {"executeAccountOperation", "executeTransferOperation",
                     "executeCoinOperation", "executeTransactionOperation"}

\* C21: in every action handler that takes an address parameter no request
\* leaves with an address unless the parameter passed isValidAddress (the
\* coin operations that take the address out of coinType are set aside).
C21_ValidatedBeforeRequest ==
  (IsHandler /\ ~(fn = "executeCoinOperation" /\ arg.operation \in {"getInfo", "getSupply", "checkExists"})) =>
    \A i \in 1..Len(ret.calls) :
      ret.calls[i].address # NoAddress => isValidAddress(arg.address)

\* What the code does give: the account handler, transferApt and
\* transferCoin send a request only for an address that passed.
ValidatedInAccountAndTransfers ==
  (fn = "executeAccountOperation"
     \/ (fn = "executeTransferOperation" /\ arg.operation \in {"transferApt", "transferCoin"})) =>
    (ret.calls # <<>> => isValidAddress(arg.address))

\* the operations that change state on the chain
StateChanging ==
  \/ fn = "executeTransferOperation" /\ arg.operation \in {"transferApt", "transferCoin", "registerCoin"}
  \/ fn = "executeCoinOperation" /\ arg.operation \in {"register", "transfer"}
  \/ fn = "executeTransactionOperation" /\ arg.operation = "submit"

\* What the handlers give when they are called with their own parameters:
\* without a signer every state-changing operation throws 'Authentication
\* required' with no request made.
SignerRequiredInHandlers ==
  (IsHandler /\ StateChanging /\ ~arg.hasSigner) =>
    /\ ret.outcome = "throws"
    /\ ret.message = "Authentication required"
    /\ ret.calls = <<>>

\* the result of item k of the execution in the state
ItemResult(k) == ExecuteItem(arg.items[k], k - 1, arg.authMethod = "privateKey")

\* the items of the execution whose operation throws
Failing == {k \in 1..Len(arg.items) : ItemResult(k).outcome = "throws"}

\* the indexes 0, 1, ..., n - 1
Through(n) == [k \in 1..n |-> k - 1]

\* the requests of items 1..n, one item after the other
RECURSIVE RequestsThrough(_)
RequestsThrough(n) == IF n = 0 THEN <<>> ELSE RequestsThrough(n - 1) \o ItemResult(n).calls

\* C22: execute takes the items one at a time in index order.  With
\* continue-on-fail it returns one entry per item, in order, paired to the
\* item's index, a failed item's entry carrying the message thrown; without
\* it the first failing item aborts the execution with its message and no
\* later item is started.
C22_OneEntryPerItem ==
  (fn = "execute" /\ arg.authMethod # "noKey") =>
    LET n == Len(arg.items)
    IN  IF arg.continueOnFail \/ Failing = {}
          THEN /\ ret.outcome = "returned"
               /\ Len(ret.returnData) = n
               /\ \A k \in 1..n :
                    /\ ret.returnData[k].pairedItem = k - 1
                    /\ ret.returnData[k].error = (k \in Failing)
                    /\ k \in Failing => ret.returnData[k].message = ItemResult(k).message
               /\ ret.started = Through(n)
               /\ ret.calls = RequestsThrough(n)
          ELSE LET f == CHOOSE k \in Failing : \A j \in Failing : k <= j
               IN  /\ ret.outcome = "throws"
                   /\ ret.message = ItemResult(f).message
                   /\ ret.itemIndex = f - 1
                   /\ ret.started = Through(f)
                   /\ ret.calls = RequestsThrough(f)
                   /\ Len(ret.returnData) = f - 1

\* C22 witness: with continue-on-fail, an item of an unknown resource and
\* then a coin registration give an error entry and a result entry
C22_Witness ==
  /\ fn = "execute"
  /\ arg.continueOnFail
  /\ arg.authMethod = "privateKey"
  /\ Len(arg.items) = 2
  /\ arg.items[1].resource = "nft"
  /\ arg.items[2].operation = "register"
  /\ ret.returnData = <<[error |-> TRUE, message |-> "Unknown resource", pairedItem |-> 0],
                        [error |-> FALSE, message |-> "", pairedItem |-> 1]>>

\* the items of the execution that ask for a state-changing operation
ItemStateChanging(item) ==
  \/ item.resource = "transfer" /\ item.operation \in {"transferApt", "transferCoin", "registerCoin"}
  \/ item.resource = "coin" /\ item.operation \in {"register", "transfer"}
  \/ item.resource = "transaction" /\ item.operation = "submit"

\* C28: when the client has no signer, every state-changing operation fails
\* with 'Authentication required' and no request for it is made: nothing is
\* built, signed or submitted.
C28_AuthenticationRequired ==
  (fn = "execute" /\ arg.authMethod = "none" /\ arg.continueOnFail) =>
    /\ ret.calls = RequestsThrough(Len(arg.items))
    /\ \A k \in 1..Len(arg.items) :
         ItemStateChanging(arg.items[k]) =>
           /\ ret.returnData[k].error
           /\ ret.returnData[k].message = "Authentication required"
           /\ ItemResult(k).calls = <<>>

\* What the node does give: without a signer no request of a state-changing
\* item leaves, whatever the message of the failure.
NothingSubmittedWithoutSigner ==
  (fn = "execute" /\ arg.authMethod = "none") =>
    /\ \A k \in 1..Len(arg.items) :
         ItemStateChanging(arg.items[k]) =>
           (ItemResult(k).outcome = "throws" /\ ItemResult(k).calls = <<>>)
    /\ \A i \in 1..Len(ret.calls) :
         ret.calls[i].method \notin
           {"transaction.build.simple", "transaction.sign", "transaction.submit.simple",
            "transferCoinTransaction"}

\* the balance, epoch and version the static data records ('0' and 0 when
\* nothing is recorded)
RecordedBalance == StringOrZero(workflowStaticData.lastBalance)

RecordedEpoch == StringOrZero(workflowStaticData.lastEpoch)

RecordedVersion == NumberOrZero(workflowStaticData.lastVersion)

\* a poll of the given type whose requests all succeed
PollSucceeds(type) ==
  /\ fn' = "poll"
  /\ arg'.triggerType = type
  /\ arg'.ledgerOk
  /\ type = "balanceChanged" => (arg'.balanceOk /\ arg'.address # <<>>)

\* C23: with balanceChanged, every poll that fetches a balance other than
\* the one recorded by the previous successful poll emits an event, a change
\* away from zero included, with previousBalance the recorded balance,
\* change the difference and increased true iff the change is positive.
C23_BalanceChangeEmitted ==
  [][(PollSucceeds("balanceChanged") /\ workflowStaticData.lastBalance.defined) =>
       LET previous == workflowStaticData.lastBalance.v
           current  == BigIntToString(arg'.balance)
           change   == BigSub(arg'.balance, StringToBigInt(previous).big)
       IN  /\ ret'.emitted = (current # previous)
           /\ ret'.emitted =>
                /\ ret'.json.previousBalance = previous
                /\ ret'.json.currentBalance = current
                /\ ret'.json.change = BigIntToString(change)
                /\ ret'.json.increased = BigLess(BigZero, change)]_vars

\* What the code does give: the same, for a recorded balance other than '0'.
BalanceChangeEmittedUnlessZero ==
  [][(PollSucceeds("balanceChanged") /\ workflowStaticData.lastBalance.defined
        /\ workflowStaticData.lastBalance.v # <<"0">>) =>
       LET previous == workflowStaticData.lastBalance.v
           current  == BigIntToString(arg'.balance)
           change   == BigSub(arg'.balance, StringToBigInt(previous).big)
       IN  /\ ret'.emitted = (current # previous)
           /\ workflowStaticData'.lastBalance = Defined(current)
           /\ ret'.emitted =>
                /\ ret'.json.previousBalance = previous
                /\ ret'.json.currentBalance = current
                /\ ret'.json.change = BigIntToString(change)
                /\ ret'.json.increased = BigLess(BigZero, change)]_vars

\* C24: with newBlock, a poll emits exactly when the version it reads is
\* above the stored lastVersion, and then stores it; the stored version
\* never decreases, and an emitted version is above every version stored
\* before, so that none is reported twice.
C24_NewVersionsOnly ==
  [][/\ RecordedVersion' >= RecordedVersion
     /\ PollSucceeds("newBlock") =>
          LET currentVersion == ParseInt10(arg'.ledger_version)
          IN  /\ ret'.emitted = (currentVersion > RecordedVersion)
              /\ ret'.emitted =>
                   /\ ret'.json.ledgerVersion = arg'.ledger_version
                   /\ workflowStaticData'.lastVersion = Defined(currentVersion)
                   /\ RecordedVersion' > RecordedVersion
              /\ ~ret'.emitted => workflowStaticData' = workflowStaticData]_vars

\* C24 witness: version 1 stored, then a poll reads version 3 and emits it
C24_Witness ==
  /\ fn = "poll"
  /\ arg.triggerType = "newBlock"
  /\ arg.ledger_version = <<"3">>
  /\ ret.emitted
  /\ ret.json.ledgerVersion = <<"3">>
  /\ workflowStaticData.lastVersion = Defined(3)
  /\ workflowStaticData.lastEpoch.defined

\* C25: with newEpoch, the first successful poll records the epoch without
\* emitting; a later poll emits exactly when the epoch it reads is not the
\* recorded one, with previousEpoch the recorded one; epoch "0" included.
C25_EpochChangeEmitted ==
  [][PollSucceeds("newEpoch") =>
       IF ~workflowStaticData.lastEpoch.defined
         THEN /\ ~ret'.emitted
              /\ workflowStaticData'.lastEpoch = Defined(arg'.epoch)
         ELSE /\ ret'.emitted = (arg'.epoch # workflowStaticData.lastEpoch.v)
              /\ ret'.emitted => ret'.json.previousEpoch = workflowStaticData.lastEpoch.v
              /\ workflowStaticData'.lastEpoch = Defined(arg'.epoch)]_vars

\* What the code does give: the same when neither the recorded epoch nor the
\* first epoch read is "0".
EpochChangeEmittedUnlessZero ==
  [][PollSucceeds("newEpoch") =>
       IF ~workflowStaticData.lastEpoch.defined
         THEN /\ ~ret'.emitted
              /\ arg'.epoch # <<"0">> => workflowStaticData'.lastEpoch = Defined(arg'.epoch)
         ELSE workflowStaticData.lastEpoch.v # <<"0">> =>
                /\ ret'.emitted = (arg'.epoch # workflowStaticData.lastEpoch.v)
                /\ ret'.emitted => ret'.json.previousEpoch = workflowStaticData.lastEpoch.v
                /\ workflowStaticData'.lastEpoch = Defined(arg'.epoch)]_vars

\* a request of the poll fails: ledger info, or the balance of the account
RequestFails ==
  \/ ~arg'.ledgerOk
  \/ arg'.triggerType = "balanceChanged" /\ arg'.address # <<>> /\ ~arg'.balanceOk

\* C26: a poll whose request fails returns null without throwing and leaves
\* lastVersion, lastEpoch and lastBalance as they were; a poll of one trigger
\* type changes only that type's field.
C26_FailureChangesNothing ==
  [][fn' = "poll" =>
       /\ ret'.outcome = "returned"
       /\ RequestFails => (~ret'.emitted /\ workflowStaticData' = workflowStaticData)
       /\ arg'.triggerType # "newBlock" =>
            workflowStaticData'.lastVersion = workflowStaticData.lastVersion
       /\ arg'.triggerType # "newEpoch" =>
            workflowStaticData'.lastEpoch = workflowStaticData.lastEpoch
       /\ arg'.triggerType # "balanceChanged" =>
            workflowStaticData'.lastBalance = workflowStaticData.lastBalance]_vars

\* C26 witness: with a version, an epoch and a balance stored, the balance
\* request of a poll fails
C26_Witness ==
  /\ fn = "poll"
  /\ arg.triggerType = "balanceChanged"
  /\ arg.ledgerOk /\ arg.address # <<>> /\ ~arg.balanceOk
  /\ ~ret.emitted
  /\ workflowStaticData = [lastVersion |-> Defined(2), lastBalance |-> Defined(<<"2">>),
                           lastEpoch |-> Defined(<<"1">>)]

\* C27: with transactionConfirmed nothing records that the trigger fired: a
\* poll emits the event whenever the transaction can be fetched, again and
\* again, and emits nothing while it cannot or the hash is empty; the static
\* data stays as it is.
C27_EmitsOnEveryPoll ==
  [][(fn' = "poll" /\ arg'.triggerType = "transactionConfirmed") =>
       /\ ret'.emitted = (arg'.ledgerOk /\ arg'.hash # <<>> /\ arg'.txFound)
       /\ ret'.emitted => ret'.json = [triggerType |-> "transactionConfirmed", hash |-> arg'.hash]
       /\ workflowStaticData' = workflowStaticData]_vars

\* C27 witness: the transaction is fetched and the event emitted
C27_Witness ==
  /\ fn = "poll"
  /\ arg.triggerType = "transactionConfirmed"
  /\ arg.txFound /\ arg.hash = <<"0", "x", "a", "b">>
  /\ ret.emitted
  /\ ret.json.hash = <<"0", "x", "a", "b">>

\* C29: pollBlocks returns at most maxBlocks blocks per call, whatever the
\* gap; every block returned is above the previous lastBlockHeight, and
\* lastBlockHeight never decreases.
C29_AtMostMaxBlocks ==
  [][/\ state'.lastBlockHeight >= state.lastBlockHeight
     /\ fn' = "pollBlocks" =>
          /\ Len(ret'.blocks) <= 10
          /\ \A k \in 1..Len(ret'.blocks) : ret'.blocks[k] > state.lastBlockHeight]_vars

\* What the code does give: at most maxBlocks + 1 blocks, all of them above
\* the previous lastBlockHeight and up to the current height, in order.
AtMostMaxBlocksAndOne ==
  [][/\ state'.lastBlockHeight >= state.lastBlockHeight
     /\ fn' = "pollBlocks" =>
          /\ Len(ret'.blocks) <= 11
          /\ \A k \in 1..Len(ret'.blocks) :
               /\ ret'.blocks[k] > state.lastBlockHeight
               /\ ret'.blocks[k] <= ledger.height
               /\ k > 1 => ret'.blocks[k] > ret'.blocks[k - 1]]_vars

\* C30: the manager's lastVersion never decreases, polls that overlap
\* included, and no second timer is ever created while one is active.
C30_VersionNeverDecreases ==
  [][/\ state'.lastVersion >= state.lastVersion
     /\ Cardinality(pollingTimer'.live) <= 1]_vars

\* What the code does give: never a second timer; and a version that never
\* decreases when no address is watched, the poll then having no await
\* between its check and its write.
OneTimerAndNoDecreaseWithoutAddresses ==
  [][/\ Cardinality(pollingTimer'.live) <= 1
     /\ pollingTimer'.handle # 0 => pollingTimer'.live = {pollingTimer'.handle}
     /\ options.addresses = <<>> => state'.lastVersion >= state.lastVersion]_vars

=============================================================================
